---------------------------- MODULE Spec2Model ----------------------------
(***************************************************************************)
(* Model of the invoice pipeline of zatca-saath: the money/VAT calculation *)
(* (InvoiceService.calculate_totals, the preview endpoint), the ZATCA TLV  *)
(* QR payload (ZATCAQRGenerator), label resolution (ZATCAInvoicePDF) and   *)
(* the generate endpoint with its persistence.                             *)
(*                                                                         *)
(* Representation.  A Python Decimal is a record [c, e] standing for       *)
(* c / 10^e (coefficient and number of fractional digits).  A str is the   *)
(* sequence of its Unicode code points, a bytes object the sequence of its *)
(* bytes (0..255).  The sign of a zero (Decimal('-0.00')) is not kept: it  *)
(* compares equal to zero in Python as well.                               *)
(***************************************************************************)
EXTENDS Integers, Sequences, FiniteSets, TLC

VARIABLES
    \* -- calculator harness (SpecTotals) --
    in_items,      \* the line items handed to both calculation paths
    svc_out,       \* what InvoiceService.calculate_totals returned for them
    prev_out,      \* what calculate_preview returned for them
    gen_out,       \* outcome of the request schema (List[InvoiceLineItem]) on them
    \* -- TLV/QR harness (SpecQR) --
    qr_in,         \* arguments of generate_qr_data
    qr_out,        \* its outcome: a base64 str, or the exception raised
    \* -- label harness (SpecLabels) --
    lab_in,        \* language and the caller's label overrides
    lab_out,       \* what _get_labels returned
    \* -- shaping harness (SpecShape) --
    shape_in,      \* the text handed to reshape_arabic_text, and how the libraries behave
    shape_out,     \* what reshape_arabic_text returned, or the exception raised
    \* -- document harness (SpecPdf) --
    pdf_in,        \* arguments of ZATCAInvoicePDF.generate_invoice, font availability
    pdf_out,       \* the document composed, or the exception raised
    \* -- POST /api/v1/invoices/generate and the database (Spec) --
    companies,     \* rows of the companies table
    invoices,      \* rows of the invoices table (committed)
    served,        \* requests received so far
    pc,            \* where the request in flight is in generate_invoice
    user,          \* current_user of the request in flight
    req,           \* the body of the last generate request, as received
    company,       \* generate_invoice: company
    totals,        \* create_invoice: totals
    qr_data,       \* create_invoice: qr_data
    qr_image,      \* create_invoice: qr_image_bytes
    pdf_labels,    \* pdf_generator.generate_invoice: labels
    pdf,           \* create_invoice: pdf_bytes
    invoice,       \* create_invoice: invoice
    response,      \* the HTTP response to the last generate request
    ran,           \* the steps of create_invoice begun for the last request
    failed,        \* the step of the last request that raised, or "none"
    before,        \* the invoices table when the last request was received
    \* -- a second call of the calculator (SpecTotals) --
    svc_again,     \* what calculate_totals returned when called again on in_items
    reqs,          \* the generate requests in flight side by side (SpecConc), by slot
    drafts,        \* rows of the invoice_drafts table
    issued,        \* primary keys generated so far (SpecStore, SpecDraft)
    last_op,       \* the last store operation served: handler, caller, arguments, outcome (SpecStore)
    saves          \* the save_draft requests in flight side by side (SpecDraft), by slot

calcVars == <<in_items, svc_out, prev_out, gen_out>>
qrVars   == <<qr_in, qr_out>>
labVars  == <<lab_in, lab_out>>
docVars  == <<shape_in, shape_out, pdf_in, pdf_out>>
dbVars   == <<companies, invoices>>
reqVars  == <<served, pc, user, req, company, totals, qr_data, qr_image, pdf_labels, pdf,
              invoice,
              response, ran, failed, before>>
apiVars  == <<dbVars, reqVars>>
storeVars == <<drafts, issued, last_op, saves>>
extVars  == <<svc_again, reqs, storeVars>>
vars     == <<calcVars, qrVars, labVars, docVars, apiVars, extVars>>

\* Largest number of line items in one call of the calculator harness.
MaxItems == 2

None == [kind |-> "None"]

(***************************************************************************)
(* decimal.Decimal                                                         *)
(***************************************************************************)
RECURSIVE Pow10(_)
Pow10(n) == IF n = 0 THEN 1 ELSE 10 * Pow10(n - 1)

Max(a, b) == IF a >= b THEN a ELSE b

Dec(c, e) == [c |-> c, e |-> e]

\* Decimal.__mul__: coefficients multiply, exponents add.
DMul(a, b) == Dec(a.c * b.c, a.e + b.e)

\* Decimal.__add__: exact, at the finer of the two exponents.
DAdd(a, b) ==
    LET e == Max(a.e, b.e)
    IN  Dec(a.c * Pow10(e - a.e) + b.c * Pow10(e - b.e), e)

\* Remove up to n trailing zeros of the coefficient.
RECURSIVE StripZeros(_, _)
StripZeros(a, n) ==
    IF n = 0 \/ a.c % 10 # 0 THEN a
    ELSE StripZeros(Dec(a.c \div 10, a.e - 1), n - 1)

\* x / Decimal("100"): exact; the result keeps the dividend's exponent where
\* the quotient can be written with it and takes more digits only as needed.
DDiv100(a) == StripZeros(Dec(a.c, a.e + 2), 2)

\* Numeric comparison of two Decimals.
DLess(a, b) == LET e == Max(a.e, b.e) IN a.c * Pow10(e - a.e) < b.c * Pow10(e - b.e)
DEq(a, b)   == LET e == Max(a.e, b.e) IN a.c * Pow10(e - a.e) = b.c * Pow10(e - b.e)

\* round(x, 2) on a Decimal: quantize to two fractional digits, ties to even.
Round2(a) ==
    IF a.e <= 2 THEN Dec(a.c * Pow10(2 - a.e), 2)
    ELSE LET d == Pow10(a.e - 2)
             q == a.c \div d
             r == a.c % d
         IN  Dec(IF 2 * r > d \/ (2 * r = d /\ q % 2 = 1) THEN q + 1 ELSE q, 2)

(***************************************************************************)
(* Line items as the two call sites receive them: dicts whose keys may be  *)
(* missing.  A dict is a record over the keys it holds.                    *)
(***************************************************************************)
D0   == Dec(0, 0)
D15  == Dec(15, 0)
D100 == Dec(100, 0)

Qtys   == {Dec(11, 2), Dec(10, 0)}
Prices == {Dec(30, 2), Dec(50000, 2)}
Rates  == {Dec(5, 0), Dec(150, 1)}

\* Items the request schema accepts, and items with a field out of range or
\* a key missing.
RawItems ==
    {[quantity |-> q, unit_price |-> p, vat_rate |-> r] :
        q \in Qtys, p \in Prices, r \in Rates}
    \cup { [quantity |-> Dec(11, 2), unit_price |-> Dec(30, 2), vat_rate |-> Dec(0, 0)],
           [quantity |-> Dec(10, 0), unit_price |-> Dec(50000, 2), vat_rate |-> Dec(20, 0)],
           [quantity |-> Dec(0, 0), unit_price |-> Dec(30, 2), vat_rate |-> Dec(15, 0)],
           [quantity |-> Dec(-1, 0), unit_price |-> Dec(30, 2), vat_rate |-> Dec(15, 0)],
           [quantity |-> Dec(10, 0), unit_price |-> Dec(0, 2), vat_rate |-> Dec(5, 0)],
           [quantity |-> Dec(10, 0), unit_price |-> Dec(-30, 2), vat_rate |-> Dec(5, 0)],
           [quantity |-> Dec(11, 2), unit_price |-> Dec(30, 2)],
           [unit_price |-> Dec(30, 2), vat_rate |-> Dec(5, 0)] }

RECURSIVE SeqsUpTo(_, _)
SeqsUpTo(S, n) ==
    IF n = 0 THEN {<<>>}
    ELSE LET shorter == SeqsUpTo(S, n - 1)
         IN  shorter \cup {Append(s, x) : s \in {t \in shorter : Len(t) = n - 1}, x \in S}

ItemLists == SeqsUpTo(RawItems, MaxItems)

\* dict.get(key, default)
Get(item, key, default) == IF key \in DOMAIN item THEN item[key] ELSE default

VatRateAllowed(v) == DEq(v, Dec(0, 0)) \/ DEq(v, Dec(5, 0)) \/ DEq(v, Dec(15, 0))



(***************************************************************************)
(* InvoiceService.calculate_totals                                         *)
(***************************************************************************)
\* One pass of the loop over line_items, from item i on, with the two
\* accumulators.
RECURSIVE TotalsLoop(_, _, _, _)
TotalsLoop(items, i, subtotal, vat_amount) ==
    IF i > Len(items) THEN [subtotal |-> subtotal, vat_amount |-> vat_amount]
    ELSE LET item          == items[i]
             qty           == Get(item, "quantity", D0)
             price         == Get(item, "unit_price", D0)
             vat_rate      == Get(item, "vat_rate", D15)
             item_subtotal == DMul(qty, price)
             item_vat      == DDiv100(DMul(item_subtotal, vat_rate))
         IN  TotalsLoop(items, i + 1, DAdd(subtotal, item_subtotal),
                        DAdd(vat_amount, item_vat))

\* A mutant of calculate_totals: every line's amounts are rounded before
\* they are summed.
RECURSIVE PerLineLoop(_, _, _, _)
PerLineLoop(items, i, subtotal, vat_amount) ==
    IF i > Len(items) THEN [subtotal |-> subtotal, vat_amount |-> vat_amount]
    ELSE LET item          == items[i]
             item_subtotal == DMul(Get(item, "quantity", D0), Get(item, "unit_price", D0))
             item_vat      == DDiv100(DMul(item_subtotal, Get(item, "vat_rate", D15)))
         IN  PerLineLoop(items, i + 1, DAdd(subtotal, Round2(item_subtotal)),
                         DAdd(vat_amount, Round2(item_vat)))

calculate_totals_per_line(line_items) ==
    LET acc == PerLineLoop(line_items, 1, D0, D0)
    IN  [subtotal     |-> Round2(acc.subtotal),
         vat_amount   |-> Round2(acc.vat_amount),
         total_amount |-> Round2(DAdd(acc.subtotal, acc.vat_amount))]

\* A mutant of calculate_totals: the running sums are kept between calls,
\* so a second call starts from what the first one returned.
calculate_totals_keeping_sums(line_items) ==
    LET start        == IF svc_out = None THEN [subtotal |-> D0, vat_amount |-> D0] ELSE svc_out
        acc          == TotalsLoop(line_items, 1, start.subtotal, start.vat_amount)
        total_amount == DAdd(acc.subtotal, acc.vat_amount)
    IN  [subtotal     |-> Round2(acc.subtotal),
         vat_amount   |-> Round2(acc.vat_amount),
         total_amount |-> Round2(total_amount)]

\* InvoiceService.calculate_totals
calculate_totals(line_items) ==
    LET acc          == TotalsLoop(line_items, 1, D0, D0)
        total_amount == DAdd(acc.subtotal, acc.vat_amount)
    IN  [subtotal     |-> Round2(acc.subtotal),
         vat_amount   |-> Round2(acc.vat_amount),
         total_amount |-> Round2(total_amount)]

(***************************************************************************)
(* calculate_preview (POST /api/v1/preview/calculate)                      *)
(***************************************************************************)
\* An entry of the errors list: f"Item {idx + 1}: <msg>".
ItemError(idx, msg) == [item |-> idx + 1, msg |-> msg]

\* The three checks made on one item, in the order of the code.
PreviewItemErrors(idx, qty, price, vat_rate) ==
    (IF DLess(qty, D0) THEN <<ItemError(idx, "Quantity cannot be negative")>> ELSE <<>>)
    \o (IF DLess(price, D0) THEN <<ItemError(idx, "Unit price cannot be negative")>> ELSE <<>>)
    \o (IF ~VatRateAllowed(vat_rate)
        THEN <<ItemError(idx, "VAT rate must be 0%, 5%, or 15%")>> ELSE <<>>)

\* The loop over enumerate(request.line_items); idx counts from 0.
RECURSIVE PreviewLoop(_, _, _, _, _)
PreviewLoop(items, idx, subtotal, vat_amount, errors) ==
    IF idx >= Len(items)
    THEN [subtotal |-> subtotal, vat_amount |-> vat_amount, errors |-> errors]
    ELSE LET item          == items[idx + 1]
             qty           == Get(item, "quantity", D0)
             price         == Get(item, "unit_price", D0)
             vat_rate      == Get(item, "vat_rate", D15)
             item_subtotal == DMul(qty, price)
             item_vat      == DDiv100(DMul(item_subtotal, vat_rate))
         IN  PreviewLoop(items, idx + 1, DAdd(subtotal, item_subtotal),
                         DAdd(vat_amount, item_vat),
                         errors \o PreviewItemErrors(idx, qty, price, vat_rate))

\* A mutant of calculate_preview: the VAT of each line is rounded to cents
\* before it is added (the other historical rounding strategy).
RECURSIVE PreviewLoopPerLine(_, _, _, _, _)
PreviewLoopPerLine(items, idx, subtotal, vat_amount, errors) ==
    IF idx >= Len(items)
    THEN [subtotal |-> subtotal, vat_amount |-> vat_amount, errors |-> errors]
    ELSE LET item          == items[idx + 1]
             qty           == Get(item, "quantity", D0)
             price         == Get(item, "unit_price", D0)
             vat_rate      == Get(item, "vat_rate", D15)
             item_subtotal == DMul(qty, price)
             item_vat      == Round2(DDiv100(DMul(item_subtotal, vat_rate)))
         IN  PreviewLoopPerLine(items, idx + 1, DAdd(subtotal, item_subtotal),
                                DAdd(vat_amount, item_vat),
                                errors \o PreviewItemErrors(idx, qty, price, vat_rate))

calculate_preview_per_line(line_items) ==
    LET acc == PreviewLoopPerLine(line_items, 0, D0, D0, <<>>)
    IN  [subtotal     |-> Round2(acc.subtotal),
         vat_amount   |-> Round2(acc.vat_amount),
         total_amount |-> Round2(DAdd(acc.subtotal, acc.vat_amount)),
         is_valid     |-> Len(acc.errors) = 0,
         errors       |-> acc.errors]

\* The PreviewResponse returned for request.line_items.
calculate_preview(line_items) ==
    LET acc          == PreviewLoop(line_items, 0, D0, D0, <<>>)
        total_amount == DAdd(acc.subtotal, acc.vat_amount)
    IN  [subtotal     |-> Round2(acc.subtotal),
         vat_amount   |-> Round2(acc.vat_amount),
         total_amount |-> Round2(total_amount),
         is_valid     |-> Len(acc.errors) = 0,
         errors       |-> acc.errors]

(***************************************************************************)
(* The request schema on line items (InvoiceLineItem, InvoiceRequest)      *)
(***************************************************************************)
\* quantity / unit_price: required, gt=0, decimal_places=2.
AmountFieldValid(item, key) ==
    /\ key \in DOMAIN item
    /\ DLess(D0, item[key])
    /\ item[key].e <= 2

\* A mutant of VatRateFieldValid: only the range 0..100 of the field is
\* checked, not the validator.
VatRateFieldRangeOnly(item) ==
    "vat_rate" \in DOMAIN item =>
        /\ ~DLess(item.vat_rate, D0)
        /\ ~DLess(D100, item.vat_rate)

\* vat_rate: default Decimal("15.0"), ge=0, le=100, then validate_vat_rate.
VatRateFieldValid(item) ==
    LET v == Get(item, "vat_rate", Dec(150, 1))
    IN  /\ ~DLess(v, D0)
        /\ ~DLess(D100, v)
        /\ VatRateAllowed(v)

InvoiceLineItemValid(item) ==
    /\ AmountFieldValid(item, "quantity")
    /\ AmountFieldValid(item, "unit_price")
    /\ VatRateFieldValid(item)

\* line_items: List[InvoiceLineItem], min_length=1, max_length=100.
LineItemsValid(items) ==
    /\ Len(items) >= 1
    /\ Len(items) <= 100
    /\ \A i \in 1..Len(items) : InvoiceLineItemValid(items[i])


(***************************************************************************)
(* str and bytes                                                           *)
(***************************************************************************)
\* The UTF-8 bytes of one code point.
Utf8OfCodePoint(cp) ==
    IF cp < 128 THEN <<cp>>
    ELSE IF cp < 2048 THEN <<192 + (cp \div 64), 128 + (cp % 64)>>
    ELSE IF cp < 65536
         THEN <<224 + (cp \div 4096), 128 + ((cp \div 64) % 64), 128 + (cp % 64)>>
    ELSE <<240 + (cp \div 262144), 128 + ((cp \div 4096) % 64),
           128 + ((cp \div 64) % 64), 128 + (cp % 64)>>

\* value.encode('utf-8') of the characters s[lo..hi], by halves.
RECURSIVE EncodeUtf8Range(_, _, _)
EncodeUtf8Range(s, lo, hi) ==
    IF lo > hi THEN <<>>
    ELSE IF lo = hi THEN Utf8OfCodePoint(s[lo])
    ELSE LET mid == (lo + hi) \div 2
         IN  EncodeUtf8Range(s, lo, mid) \o EncodeUtf8Range(s, mid + 1, hi)

EncodeUtf8(s) == EncodeUtf8Range(s, 1, Len(s))

\* The character of the base64 alphabet with index v (0..63).
B64Char(v) ==
    IF v < 26 THEN 65 + v
    ELSE IF v < 52 THEN 97 + (v - 26)
    ELSE IF v < 62 THEN 48 + (v - 52)
    ELSE IF v = 62 THEN 43 ELSE 47

\* base64.b64encode(b).decode('utf-8'): every 3 bytes give 4 characters, the
\* last group padded with '='.
b64encode(b) ==
    LET n       == Len(b)
        byte(i) == IF i <= n THEN b[i] ELSE 0
        v(g)    == byte(3 * g + 1) * 65536 + byte(3 * g + 2) * 256 + byte(3 * g + 3)
        char(k) ==
            LET g == (k - 1) \div 4
                j == (k - 1) % 4
            IN  IF j = 0 THEN B64Char(v(g) \div 262144)
                ELSE IF j = 1 THEN B64Char((v(g) \div 4096) % 64)
                ELSE IF j = 2
                     THEN (IF 3 * g + 2 > n THEN 61 ELSE B64Char((v(g) \div 64) % 64))
                ELSE (IF 3 * g + 3 > n THEN 61 ELSE B64Char(v(g) % 64))
    IN  [k \in 1..(4 * ((n + 2) \div 3)) |-> char(k)]

\* The decimal digits of a natural number, as characters.
RECURSIVE Digits(_)
Digits(n) == IF n < 10 THEN <<48 + n>> ELSE Append(Digits(n \div 10), 48 + (n % 10))

\* f"{x:.2f}" for a Decimal x: rounded to two fractional digits (ties to
\* even), written with a point and exactly two digits after it.
Format2f(x) ==
    LET cents == Round2(x).c
        mag   == IF cents < 0 THEN 0 - cents ELSE cents
    IN  (IF cents < 0 THEN <<45>> ELSE <<>>)
        \o Digits(mag \div 100) \o <<46, 48 + ((mag % 100) \div 10), 48 + (mag % 10)>>

(***************************************************************************)
(* ZATCAQRGenerator                                                        *)
(***************************************************************************)
Returned(v) == [exc |-> "none", val |-> v]
Raised(e)   == [exc |-> e, val |-> <<>>]

\* A mutant of encode_tlv: the length byte wraps modulo 256 instead of
\* bytes([tag, length]) raising.
encode_tlv_wrapping(tag, value) ==
    LET value_bytes == EncodeUtf8(value)
    IN  Returned(<<tag, Len(value_bytes) % 256>> \o value_bytes)

\* A mutant of encode_tlv: the length is the number of characters.
encode_tlv_char_length(tag, value) ==
    LET value_bytes == EncodeUtf8(value)
    IN  IF Len(value) > 255 THEN Raised("ValueError")
        ELSE Returned(<<tag, Len(value)>> \o value_bytes)

\* _encode_tlv(tag, value): bytes([tag, length]) raises ValueError for a
\* length outside range(0, 256).
encode_tlv(tag, value) ==
    LET value_bytes == EncodeUtf8(value)
        length      == Len(value_bytes)
    IN  IF length > 255 \/ tag > 255 THEN Raised("ValueError")
        ELSE Returned(<<tag, length>> \o value_bytes)

\* tlv_data += _encode_tlv(...) for the fields from i on; the first exception
\* ends the call.
RECURSIVE TlvAppend(_, _, _)
TlvAppend(fields, i, tlv_data) ==
    IF i > Len(fields) THEN Returned(tlv_data)
    ELSE LET t == encode_tlv(fields[i].tag, fields[i].value)
         IN  IF t.exc # "none" THEN t
             ELSE TlvAppend(fields, i + 1, tlv_data \o t.val)

generate_qr_data(seller_name, vat_number, timestamp, total_amount, vat_amount) ==
    LET fields == << [tag |-> 1, value |-> seller_name],
                     [tag |-> 2, value |-> vat_number],
                     [tag |-> 3, value |-> timestamp],
                     [tag |-> 4, value |-> Format2f(total_amount)],
                     [tag |-> 5, value |-> Format2f(vat_amount)] >>
        tlv    == TlvAppend(fields, 1, <<>>)
    IN  IF tlv.exc # "none" THEN tlv ELSE Returned(b64encode(tlv.val))

(***************************************************************************)
(* Labels (ZATCAInvoicePDF._get_default_labels, _get_labels, InvoiceLabels)*)
(* A dict of labels is a function from its keys to texts.  An Arabic text  *)
(* is written here by a Latin transliteration of the source's text.        *)
(***************************************************************************)
ArabicDefaultLabels ==
    [vat_number     |-> "ar: al-raqm al-daribi",
     invoice_number |-> "ar: raqm al-fatura",
     date           |-> "ar: al-tarikh",
     customer_info  |-> "ar: ma'lumat al-'amil",
     description    |-> "ar: al-wasf",
     quantity       |-> "ar: al-kammiya",
     amount         |-> "ar: al-mablagh",
     vat            |-> "ar: d.q.m",
     total          |-> "ar: al-ijmali",
     subtotal       |-> "ar: al-majmu' al-far'i",
     vat_total      |-> "ar: daribat al-qima al-mudafa (15%)",
     grand_total    |-> "ar: al-ijmali",
     qr_code        |-> "ar: ramz al-istijaba al-sari'a",
     notes          |-> "ar: mulahazat"]

EnglishDefaultLabels ==
    [vat_number     |-> "VAT Number",
     invoice_number |-> "Invoice Number",
     date           |-> "Date",
     customer_info  |-> "Customer Information",
     description    |-> "Description",
     quantity       |-> "Qty",
     amount         |-> "Amount",
     vat            |-> "VAT",
     total          |-> "Total",
     subtotal       |-> "Subtotal",
     vat_total      |-> "VAT (15%)",
     grand_total    |-> "Total",
     qr_code        |-> "QR Code",
     notes          |-> "Notes"]

\* _get_default_labels(language)
get_default_labels(language) ==
    IF language = "ar" THEN ArabicDefaultLabels ELSE EnglishDefaultLabels

\* The field defaults of the request schema InvoiceLabels.
InvoiceLabelsDefaults ==
    [company_name   |-> "Company Name",
     vat_number     |-> "VAT Number",
     invoice_number |-> "Invoice Number",
     date           |-> "Date",
     customer_info  |-> "Customer Information",
     description    |-> "Description",
     quantity       |-> "Qty",
     amount         |-> "Amount",
     vat            |-> "VAT",
     total          |-> "Total",
     subtotal       |-> "Subtotal",
     vat_total      |-> "VAT (15%)",
     grand_total    |-> "Total",
     qr_code        |-> "QR Code",
     notes          |-> "Notes"]

\* d.copy() followed by update(m)
DictUpdate(d, m) ==
    [k \in DOMAIN d \cup DOMAIN m |-> IF k \in DOMAIN m THEN m[k] ELSE d[k]]

\* InvoiceLabels(**sent): the object the schema builds from the keys the
\* caller sent; a field that was not sent holds the field's default.
InvoiceLabels(sent) == DictUpdate(InvoiceLabelsDefaults, sent)

\* labels.model_dump(exclude_none=True): every field whose value is not None;
\* the fields are str, so none is dropped.
model_dump_exclude_none(labels) == labels

\* _get_labels(invoice_data), with invoice_data.labels either None or the
\* InvoiceLabels object (an object is truthy whatever it holds).
get_labels(language, labels) ==
    LET default_labels == get_default_labels(language)
    IN  IF labels # None
        THEN DictUpdate(default_labels, model_dump_exclude_none(labels))
        ELSE default_labels

(***************************************************************************)
(* The calculator harness: the same line items go through the generation   *)
(* path's calculator, the preview endpoint and the request schema.         *)
(***************************************************************************)
\* The generate requests served side by side, and the record of a request
\* that has not arrived yet.
Slots == {1, 2}
NewSlot ==
    [pc |-> "new", user |-> None, body |-> None, company |-> None, totals |-> None,
     qr_data |-> None, qr_image |-> None, labels |-> None, pdf |-> None, invoice |-> None,
     response |-> None]

\* A save_draft request that has not arrived yet.
NewSave == [pc |-> "new", user |-> None, draft |-> None, existing |-> None, response |-> None]

\* The state of each part of the model before anything is called on it.
NoCalculation == in_items = <<>> /\ svc_out = None /\ prev_out = None /\ gen_out = None
NoQrCall      == qr_in = None /\ qr_out = None
NoLabelsCall  == lab_in = None /\ lab_out = None
NoDocCall     == shape_in = None /\ shape_out = None /\ pdf_in = None /\ pdf_out = None

NoExt ==
    /\ svc_again = None
    /\ reqs = [s \in Slots |-> NewSlot]
    /\ drafts = {}
    /\ issued = 0
    /\ last_op = None
    /\ saves = [s \in Slots |-> NewSave]
NoRequest ==
    /\ companies = {} /\ invoices = {} /\ served = 0 /\ pc = "idle"
    /\ user = None /\ req = None /\ company = None /\ totals = None
    /\ qr_data = None /\ qr_image = None /\ pdf_labels = None /\ pdf = None
    /\ invoice = None
    /\ response = None /\ ran = <<>> /\ failed = "none" /\ before = {}

InitTotals ==
    /\ in_items \in ItemLists
    /\ svc_out = None
    /\ prev_out = None
    /\ gen_out = None
    /\ NoQrCall /\ NoLabelsCall /\ NoDocCall /\ NoRequest /\ NoExt

\* n times the character cp.
Repeat(cp, n) == [i \in 1..n |-> cp]

\* "AB"; an Arabic word; a 3-byte and a 4-byte character; the empty string;
\* Arabic text of 255, 256 and 400 UTF-8 bytes (200 characters is the longest
\* name_ar the company schema accepts).
SellerNames ==
    { <<65, 66>>, <<1588, 1585, 1603, 1577>>, <<8364, 128512>>, <<>>,
      Repeat(1575, 127) \o <<65>>, Repeat(1575, 128), Repeat(1575, 200) }

\* "310122393500003", and 256 ASCII characters.
VatNumbers ==
    { <<51, 49, 48, 49, 50, 50, 51, 57, 51, 53, 48, 48, 48, 48, 51>>, Repeat(120, 256) }

\* "2024-11-25T10:00:00" and "2024-01-05T09:03:07.000120"
Timestamps ==
    { <<50, 48, 50, 52, 45, 49, 49, 45, 50, 53, 84, 49, 48, 58, 48, 48, 58, 48, 48>>,
      <<50, 48, 50, 52, 45, 48, 49, 45, 48, 53, 84, 48, 57, 58, 48, 51, 58, 48, 55,
        46, 48, 48, 48, 49, 50, 48>> }

\* 1150.00, 1150.005, 5 and 150.00, 0.015
QrTotals == {Dec(115000, 2), Dec(1150005, 3), Dec(5, 0)}
QrVats   == {Dec(15000, 2), Dec(15, 3)}

QrInputs ==
    [seller_name : SellerNames, vat_number : VatNumbers, timestamp : Timestamps,
     total_amount : QrTotals, vat_amount : QrVats]

\* InvoiceService.calculate_totals(line_items)
CallCalculateTotals ==
    /\ svc_out = None
    /\ svc_out' = calculate_totals(in_items)
    /\ UNCHANGED <<in_items, prev_out, gen_out, qrVars, labVars, docVars, apiVars, extVars>>

\* POST /api/v1/preview/calculate with {"line_items": in_items}
CallCalculatePreview ==
    /\ prev_out = None
    /\ prev_out' = calculate_preview(in_items)
    /\ UNCHANGED <<in_items, svc_out, gen_out, qrVars, labVars, docVars, apiVars, extVars>>

\* The body of POST /api/v1/invoices/generate is parsed as an InvoiceRequest:
\* a list the schema refuses is answered 422 and generate_invoice never runs.
ValidateLineItems ==
    /\ gen_out = None
    /\ gen_out' = [kind |-> IF LineItemsValid(in_items) THEN "accepted" ELSE "rejected"]
    /\ UNCHANGED <<in_items, svc_out, prev_out, qrVars, labVars, docVars, apiVars, extVars>>

\* InvoiceService.calculate_totals(line_items) once more, on the same list,
\* whatever was called in between.
CallCalculateTotalsAgain ==
    /\ svc_out # None /\ svc_again = None
    /\ svc_again' = calculate_totals(in_items)
    /\ UNCHANGED <<calcVars, qrVars, labVars, docVars, apiVars, reqs, storeVars>>

NextTotals ==
    CallCalculateTotals \/ CallCalculatePreview \/ ValidateLineItems \/ CallCalculateTotalsAgain

SpecTotals == InitTotals /\ [][NextTotals]_vars

(***************************************************************************)
(* Claims about the calculator                                             *)
(***************************************************************************)
\* The item is one the claims call invalid: a rate outside {0, 5, 15}, or a
\* quantity or unit price that is not positive.
ItemOutOfRange(item) ==
    \/ ("vat_rate" \in DOMAIN item /\ ~VatRateAllowed(item.vat_rate))
    \/ ("quantity" \in DOMAIN item /\ ~DLess(D0, item.quantity))
    \/ ("unit_price" \in DOMAIN item /\ ~DLess(D0, item.unit_price))

\* C1: for a non-empty list of items the schema accepts (rate in {0,5,15},
\* quantity > 0, price > 0, at most 2 fractional digits), the returned
\* total_amount equals the returned subtotal plus the returned vat_amount,
\* and each returned value has exactly 2 decimal places.
C1_TotalIsSumOfReturned ==
    (svc_out # None /\ LineItemsValid(in_items)) =>
        /\ DEq(svc_out.total_amount, DAdd(svc_out.subtotal, svc_out.vat_amount))
        /\ svc_out.subtotal.e = 2
        /\ svc_out.vat_amount.e = 2
        /\ svc_out.total_amount.e = 2

\* C2: on the same line items the preview path and the generation path
\* return identical subtotal, vat_amount and total_amount.
C2_PreviewEqualsGeneration ==
    (svc_out # None /\ prev_out # None) =>
        /\ prev_out.subtotal = svc_out.subtotal
        /\ prev_out.vat_amount = svc_out.vat_amount
        /\ prev_out.total_amount = svc_out.total_amount

\* Both paths have answered for two items whose amounts are not whole cents.
C2_Witness ==
    /\ svc_out # None
    /\ prev_out # None
    /\ Len(in_items) = 2
    /\ \A i \in 1..2 : in_items[i] =
           [quantity |-> Dec(11, 2), unit_price |-> Dec(30, 2), vat_rate |-> Dec(150, 1)]
    /\ svc_out.vat_amount = Dec(1, 2)

\* The exact amounts of one item in units of 10^-5, by integer arithmetic.
LineSubtotalE5(item) ==
    LET q == Get(item, "quantity", D0)
        p == Get(item, "unit_price", D0)
    IN  q.c * p.c * Pow10(5 - q.e - p.e)

LineVatE5(item) ==
    LET q == Get(item, "quantity", D0)
        p == Get(item, "unit_price", D0)
        r == Get(item, "vat_rate", D15)
        t == q.e + p.e + r.e + 2
    IN  IF t <= 5 THEN q.c * p.c * r.c * Pow10(5 - t)
        ELSE (q.c * p.c * r.c) \div Pow10(t - 5)

RECURSIVE SumOver(_, _)
SumOver(f, S) ==
    IF S = {} THEN 0
    ELSE LET i == CHOOSE j \in S : TRUE IN f[i] + SumOver(f, S \ {i})

ExactSubtotalE5(items) ==
    SumOver([i \in 1..Len(items) |-> LineSubtotalE5(items[i])], 1..Len(items))

ExactVatE5(items) ==
    SumOver([i \in 1..Len(items) |-> LineVatE5(items[i])], 1..Len(items))

\* The whole number of cents nearest to n / 1000, a tie going to the even one.
NearestCents(n) ==
    LET lo == n \div 1000
    IN  IF n - lo * 1000 < 500 THEN lo
        ELSE IF n - lo * 1000 > 500 THEN lo + 1
        ELSE IF lo % 2 = 0 THEN lo ELSE lo + 1

\* C3: each returned value is the invoice-level aggregate rounded once to
\* cents, no line value being rounded before the sum; 10 x 500.00 at 15%
\* gives 5000.00, 750.00, 5750.00.
C3_AggregateRoundedOnce ==
    svc_out # None =>
        /\ svc_out.subtotal = Dec(NearestCents(ExactSubtotalE5(in_items)), 2)
        /\ svc_out.vat_amount = Dec(NearestCents(ExactVatE5(in_items)), 2)
        /\ svc_out.total_amount =
               Dec(NearestCents(ExactSubtotalE5(in_items) + ExactVatE5(in_items)), 2)
        /\ (in_items = <<[quantity |-> Dec(10, 0), unit_price |-> Dec(50000, 2),
                          vat_rate |-> Dec(150, 1)]>>
               => svc_out = [subtotal |-> Dec(500000, 2), vat_amount |-> Dec(75000, 2),
                             total_amount |-> Dec(575000, 2)])

\* Totals were returned for two lines whose per-line rounding would lose a
\* cent of the subtotal.
C3_Witness ==
    /\ svc_out # None
    /\ Len(in_items) = 2
    /\ \A i \in 1..2 : LineSubtotalE5(in_items[i]) = 3300
    /\ svc_out.subtotal = Dec(7, 2)

\* C8: every item that is out of range is flagged by the preview (is_valid
\* false and an error naming the item) and refused by the generation path.
C8_OutOfRangeItemsRejected ==
    \A i \in 1..Len(in_items) :
        ItemOutOfRange(in_items[i]) =>
            /\ prev_out # None =>
                   /\ ~prev_out.is_valid
                   /\ \E k \in 1..Len(prev_out.errors) : prev_out.errors[k].item = i
            /\ gen_out # None => gen_out.kind = "rejected"

(***************************************************************************)
(* The TLV/QR harness: generate_qr_data called on its own.                 *)
(***************************************************************************)
InitQRCall ==
    /\ qr_in \in QrInputs
    /\ qr_out = None
    /\ NoCalculation /\ NoLabelsCall /\ NoDocCall /\ NoRequest /\ NoExt

\* ZATCAQRGenerator.generate_qr_data(**qr_in)
CallGenerateQrData ==
    /\ qr_out = None
    /\ qr_out' = generate_qr_data(qr_in.seller_name, qr_in.vat_number, qr_in.timestamp,
                                  qr_in.total_amount, qr_in.vat_amount)
    /\ UNCHANGED <<qr_in, calcVars, labVars, docVars, apiVars, extVars>>

NextQR == CallGenerateQrData

SpecQR == InitQRCall /\ [][NextQR]_vars


B64Index(ch) ==
    IF ch >= 65 /\ ch <= 90 THEN ch - 65
    ELSE IF ch >= 97 /\ ch <= 122 THEN ch - 97 + 26
    ELSE IF ch >= 48 /\ ch <= 57 THEN ch - 48 + 52
    ELSE IF ch = 43 THEN 62
    ELSE IF ch = 47 THEN 63 ELSE 0

\* base64.b64decode(s) of a padded base64 string.
b64decode(s) ==
    LET n       == Len(s)
        pad     == IF n = 0 THEN 0
                   ELSE IF s[n] # 61 THEN 0
                   ELSE IF s[n - 1] # 61 THEN 1 ELSE 2
        v(g)    == B64Index(s[4 * g + 1]) * 262144 + B64Index(s[4 * g + 2]) * 4096
                   + B64Index(s[4 * g + 3]) * 64 + B64Index(s[4 * g + 4])
        byte(k) ==
            LET g == (k - 1) \div 3
                j == (k - 1) % 3
            IN  IF j = 0 THEN v(g) \div 65536
                ELSE IF j = 1 THEN (v(g) \div 256) % 256
                ELSE v(g) % 256
    IN  [k \in 1..(3 * (n \div 4) - pad) |-> byte(k)]

\* A byte that starts a character, and the number of bytes of that character.
IsLead(x) == x < 128 \/ x >= 192
CharLen(x) == IF x < 128 THEN 1 ELSE IF x < 224 THEN 2 ELSE IF x < 240 THEN 3 ELSE 4

\* The bytes are whole UTF-8 characters: every lead byte is followed by its
\* continuation bytes and nothing else is a continuation byte.
ValidUtf8(b) ==
    /\ \A i \in 1..Len(b) : b[i] >= 0 /\ b[i] < 248
    /\ \A i \in 1..Len(b) :
           IsLead(b[i]) =>
               /\ i + CharLen(b[i]) - 1 <= Len(b)
               /\ \A j \in (i + 1)..(i + CharLen(b[i]) - 1) : ~IsLead(b[j])
               /\ (i + CharLen(b[i]) <= Len(b) => IsLead(b[i + CharLen(b[i])]))
    /\ (Len(b) > 0 => IsLead(b[1]))

\* The code point of the character that starts at byte i.
CodePointAt(b, i) ==
    IF b[i] < 128 THEN b[i]
    ELSE IF b[i] < 224 THEN (b[i] - 192) * 64 + (b[i + 1] - 128)
    ELSE IF b[i] < 240
         THEN (b[i] - 224) * 4096 + (b[i + 1] - 128) * 64 + (b[i + 2] - 128)
    ELSE (b[i] - 240) * 262144 + (b[i + 1] - 128) * 4096 + (b[i + 2] - 128) * 64
         + (b[i + 3] - 128)

\* The str of the valid UTF-8 bytes b[lo..hi], by halves cut at a lead byte.
RECURSIVE DecodeUtf8Range(_, _, _)
DecodeUtf8Range(b, lo, hi) ==
    IF lo > hi THEN <<>>
    ELSE IF lo + CharLen(b[lo]) > hi THEN <<CodePointAt(b, lo)>>
    ELSE LET m0  == (lo + hi + 1) \div 2
             cut == CHOOSE i \in (m0 - 3)..(m0 + 3) : i > lo /\ i <= hi /\ IsLead(b[i])
         IN  DecodeUtf8Range(b, lo, cut - 1) \o DecodeUtf8Range(b, cut, hi)

DecodeUtf8(b) == DecodeUtf8Range(b, 1, Len(b))

\* The TLV records read from byte pos on: ok is false when the bytes end
\* inside a record.
RECURSIVE ParseTlvFrom(_, _)
ParseTlvFrom(b, pos) ==
    IF pos > Len(b) THEN [ok |-> TRUE, records |-> <<>>]
    ELSE IF pos + 1 > Len(b) \/ pos + 1 + b[pos + 1] > Len(b)
         THEN [ok |-> FALSE, records |-> <<>>]
    ELSE LET rest == ParseTlvFrom(b, pos + 2 + b[pos + 1])
         IN  [ok      |-> rest.ok,
              records |-> <<[tag    |-> b[pos],
                             length |-> b[pos + 1],
                             value  |-> SubSeq(b, pos + 2, pos + 1 + b[pos + 1])]>>
                          \o rest.records]

ParseTlv(b) == ParseTlvFrom(b, 1)

IsDigit(ch) == ch >= 48 /\ ch <= 57

\* The number written by the digits among s[i..last].
RECURSIVE ReadNat(_, _, _)
ReadNat(s, i, last) ==
    IF i > last THEN 0
    ELSE IF ~IsDigit(s[last]) THEN ReadNat(s, i, last - 1)
    ELSE ReadNat(s, i, last - 1) * 10 + (s[last] - 48)

\* The number of cents a text of the form [-]d+.dd stands for; Malformed
\* for any other text.
Malformed == [kind |-> "malformed"]

ReadFixed2(s) ==
    LET neg   == Len(s) > 0 /\ s[1] = 45
        first == IF neg THEN 2 ELSE 1
        n     == Len(s)
    IN  IF /\ n - first >= 3
           /\ s[n - 2] = 46
           /\ \A i \in first..n : i # n - 2 => IsDigit(s[i])
        THEN [kind |-> "cents",
              cents |-> (IF neg THEN -1 ELSE 1) * ReadNat(s, first, n)]
        ELSE Malformed

\* C4: a returned payload, base64-decoded and read as TLV, is exactly five
\* records tagged 1..5 in order with nothing left over; every length byte is
\* the UTF-8 length of its value; values 1..3 are the seller name, the VAT
\* number and the timestamp given, values 4 and 5 the two amounts written
\* with two decimals.
C4_TlvRoundTrip ==
    (qr_out # None /\ qr_out.exc = "none") =>
        LET p     == ParseTlv(b64decode(qr_out.val))
            given == <<qr_in.seller_name, qr_in.vat_number, qr_in.timestamp>>
            money == <<qr_in.total_amount, qr_in.vat_amount>>
        IN  /\ p.ok
            /\ Len(p.records) = 5
            /\ \A i \in 1..5 :
                   /\ p.records[i].tag = i
                   /\ ValidUtf8(p.records[i].value)
                   /\ p.records[i].length = Len(EncodeUtf8(DecodeUtf8(p.records[i].value)))
            /\ \A i \in 1..3 :
                   /\ DecodeUtf8(p.records[i].value) = given[i]
                   /\ p.records[i].length = Len(EncodeUtf8(given[i]))
            /\ \A i \in 1..2 :
                   ReadFixed2(DecodeUtf8(p.records[3 + i].value)) =
                       [kind |-> "cents", cents |-> Round2(money[i]).c]

\* A payload was returned for a seller name of exactly 255 UTF-8 bytes.
C4_Witness ==
    /\ qr_out # None
    /\ qr_out.exc = "none"
    /\ Len(EncodeUtf8(qr_in.seller_name)) = 255
    /\ Len(ParseTlv(b64decode(qr_out.val)).records) = 5

\* The five values generate_qr_data encodes.
QrFieldValues ==
    <<qr_in.seller_name, qr_in.vat_number, qr_in.timestamp,
      Format2f(qr_in.total_amount), Format2f(qr_in.vat_amount)>>

\* C5: when one of the five values is longer than 255 UTF-8 bytes the call
\* raises and gives no payload.
C5_OversizedFieldRaises ==
    (qr_out # None /\ \E i \in 1..5 : Len(EncodeUtf8(QrFieldValues[i])) > 255) =>
        /\ qr_out.exc = "ValueError"
        /\ qr_out.val = <<>>

\* The call raised for a seller name of 256 bytes, one more than fits.
C5_Witness ==
    /\ qr_out # None
    /\ qr_out.exc = "ValueError"
    /\ Len(EncodeUtf8(qr_in.seller_name)) = 256
    /\ Len(EncodeUtf8(qr_in.vat_number)) = 15

(***************************************************************************)
(* The label harness: _get_labels called on its own.                       *)
(***************************************************************************)
\* The keys a caller overrides here, and the texts it sends for them.
OverrideKeys  == {"total", "vat_number", "notes", "company_name"}
OverrideTexts == {"X", ""}

\* What the request may carry as "labels": nothing, or an object with some
\* of the keys.
SentLabels == {None} \cup UNION {[K -> OverrideTexts] : K \in SUBSET OverrideKeys}

InitLabelsCall ==
    /\ lab_in \in [language : {"ar", "en"}, sent : SentLabels]
    /\ lab_out = None
    /\ NoCalculation /\ NoQrCall /\ NoDocCall /\ NoRequest /\ NoExt

\* ZATCAInvoicePDF._get_labels(invoice_data) for the parsed request
CallGetLabels ==
    /\ lab_out = None
    /\ lab_out' = get_labels(lab_in.language,
                             IF lab_in.sent = None THEN None ELSE InvoiceLabels(lab_in.sent))
    /\ UNCHANGED <<lab_in, docVars, calcVars, qrVars, apiVars, extVars>>

NextLabels == CallGetLabels

SpecLabels == InitLabelsCall /\ [][NextLabels]_vars

(***************************************************************************)
(* Claims about label resolution                                           *)
(***************************************************************************)
LabelKeys == DOMAIN ArabicDefaultLabels

\* C7: every label key resolves to the caller's text when the caller set the
\* key and to the default of the request's language otherwise; 'en' without
\* overrides gives exactly the English defaults.
C7_UnsetKeysTakeLanguageDefault ==
    lab_out # None =>
        /\ \A k \in LabelKeys :
               lab_out[k] = IF lab_in.sent # None /\ k \in DOMAIN lab_in.sent
                            THEN lab_in.sent[k]
                            ELSE get_default_labels(lab_in.language)[k]
        /\ (lab_in.language = "en" /\ lab_in.sent = None => lab_out = EnglishDefaultLabels)

(***************************************************************************)
(* POST /api/v1/invoices/generate: the request schema, the company lookup, *)
(* create_invoice step by step, and the invoices table.  One request is in *)
(* flight at a time.                                                       *)
(***************************************************************************)
\* Requests received, and companies created, in one behaviour.
MaxRequests  == 2
MaxCompanies == 2

Users == {"u1", "u2"}

\* n written in decimal, zero-padded to width characters.
Pad(n, width) == LET d == Digits(n) IN Repeat(48, width - Len(d)) \o d

\* datetime.isoformat() of a naive datetime: YYYY-MM-DDTHH:MM:SS, followed by
\* .ffffff when the microsecond is not zero.
isoformat(dt) ==
    Pad(dt.year, 4) \o <<45>> \o Pad(dt.month, 2) \o <<45>> \o Pad(dt.day, 2) \o <<84>>
    \o Pad(dt.hour, 2) \o <<58>> \o Pad(dt.minute, 2) \o <<58>> \o Pad(dt.second, 2)
    \o (IF dt.microsecond = 0 THEN <<>> ELSE <<46>> \o Pad(dt.microsecond, 6))

\* CompanyBase: name_en and name_ar of 1..200 characters, vat_number of 15
\* characters matching ^3\d{14}$.
CompanyBaseValid(data) ==
    /\ Len(data.name_en) >= 1 /\ Len(data.name_en) <= 200
    /\ Len(data.name_ar) >= 1 /\ Len(data.name_ar) <= 200
    /\ Len(data.vat_number) = 15
    /\ data.vat_number[1] = 51
    /\ \A i \in 2..15 : IsDigit(data.vat_number[i])

\* "310122393500003"
SampleVat == <<51, 49, 48, 49, 50, 50, 51, 57, 51, 53, 48, 48, 48, 48, 51>>

\* Company profiles sent to POST /api/v1/companies: an Arabic name of four
\* characters; one of 200 characters (400 UTF-8 bytes), the longest the
\* schema accepts; one of 201 characters, which it refuses.
CompanyInputs ==
    { [name_en |-> <<65, 66>>, name_ar |-> <<1588, 1585, 1603, 1577>>, vat_number |-> SampleVat],
      [name_en |-> <<65, 66>>, name_ar |-> Repeat(1575, 200), vat_number |-> SampleVat],
      [name_en |-> <<65, 66>>, name_ar |-> Repeat(1575, 201), vat_number |-> SampleVat] }

\* Company(user_id=..., name_en=..., name_ar=..., vat_number=...)
CompanyRow(id, user_id, data) ==
    [id |-> id, user_id |-> user_id, name_en |-> data.name_en, name_ar |-> data.name_ar,
     vat_number |-> data.vat_number]

\* InvoiceRequest: customer_name_ar of 1..200 characters, line_items a list
\* of 1..100 valid InvoiceLineItem, language "ar" or "en".
InvoiceRequestValid(body) ==
    /\ Len(body.customer_name_ar) >= 1 /\ Len(body.customer_name_ar) <= 200
    /\ LineItemsValid(body.line_items)
    /\ body.language \in {"ar", "en"}

\* 2024-11-25T10:00:00 and 2024-01-05T09:03:07.000120
InvoiceDates ==
    { [year |-> 2024, month |-> 11, day |-> 25, hour |-> 10, minute |-> 0, second |-> 0,
       microsecond |-> 0],
      [year |-> 2024, month |-> 1, day |-> 5, hour |-> 9, minute |-> 3, second |-> 7,
       microsecond |-> 120] }

\* The line item lists of the requests: ten units at 500.00 and 15%; two
\* lines of 0.11 x 0.30 at 15%; one line at a VAT rate of 20; no line.
RequestItemLists ==
    { << [quantity |-> Dec(10, 0), unit_price |-> Dec(50000, 2), vat_rate |-> Dec(150, 1)] >>,
      << [quantity |-> Dec(11, 2), unit_price |-> Dec(30, 2), vat_rate |-> Dec(150, 1)],
         [quantity |-> Dec(11, 2), unit_price |-> Dec(30, 2), vat_rate |-> Dec(150, 1)] >>,
      << [quantity |-> Dec(10, 0), unit_price |-> Dec(50000, 2), vat_rate |-> Dec(20, 0)] >>,
      << >> }

\* What the body of a request carries besides its invoice number.  The list
\* of two lines comes in an English request that overrides the label
\* "total" and is dated with microseconds; the other lists come in Arabic
\* requests without labels.
RequestContents ==
    { [invoice_date     |-> CHOOSE d \in InvoiceDates : (d.microsecond = 0) <=> (Len(items) < 2),
       line_items       |-> items,
       language         |-> IF Len(items) = 2 THEN "en" ELSE "ar",
       labels           |-> IF Len(items) = 2 THEN [total |-> "X"] ELSE None,
       customer_name_ar |-> <<1593, 1605, 1610, 1604>>]
        : items \in RequestItemLists }

InvoiceNumbers == {"INV-001", "INV-002"}

GenerateRequests ==
    { [invoice_number |-> n] @@ c : n \in InvoiceNumbers, c \in RequestContents }


\* A mutant of QrDataFor: the English company name, and the subtotal in
\* place of the total.
QrDataForEnglishName(co, invoice_data, tot) ==
    generate_qr_data(co.name_en, co.vat_number, isoformat(invoice_data.invoice_date),
                     tot.subtotal, tot.vat_amount)

\* create_invoice, "Generate QR code data": the arguments handed to
\* generate_qr_data for this company, request and totals.
QrDataFor(co, invoice_data, tot) ==
    generate_qr_data(co.name_ar, co.vat_number, isoformat(invoice_data.invoice_date),
                     tot.total_amount, tot.vat_amount)

\* A mutant of ComposePdf: the document carries an image rendered from
\* another payload.
ComposePdfOtherImage(co, invoice_data, resolved, image) ==
    [company_info |-> [name_en |-> co.name_en, name_ar |-> co.name_ar,
                       vat_number |-> co.vat_number],
     labels       |-> resolved,
     qr_image     |-> [png_of |-> <<>>]]

\* generate_invoice of the PDF generator: the document, by what it is
\* composed from.
ComposePdf(co, invoice_data, resolved, image) ==
    [company_info |-> [name_en |-> co.name_en, name_ar |-> co.name_ar,
                       vat_number |-> co.vat_number],
     labels       |-> resolved,
     qr_image     |-> image]

\* Invoice(user_id=..., company_id=..., ...): the record create_invoice
\* builds; pdf_data is base64 of the document.
InvoiceRow(id, user_id, co, invoice_data, tot, qr, doc) ==
    [id |-> id, user_id |-> user_id, company_id |-> co.id,
     invoice_number |-> invoice_data.invoice_number,
     invoice_date   |-> invoice_data.invoice_date,
     customer_name_ar |-> invoice_data.customer_name_ar,
     line_items     |-> invoice_data.line_items,
     subtotal       |-> tot.subtotal,
     total_vat      |-> tot.vat_amount,
     total_amount   |-> tot.total_amount,
     qr_code_data   |-> qr,
     pdf_data       |-> [base64_of |-> doc],
     status         |-> "generated"]

\* A mutant of db_commit: the insert is not undone when the commit fails.
db_commit_not_atomic(rows, row, db_ok) ==
    IF db_ok /\ \A r \in rows : r.invoice_number # row.invoice_number
    THEN [exc |-> "none", rows |-> rows \cup {row}]
    ELSE [exc |-> "Error", rows |-> rows \cup {row}]

\* A mutant of db_commit: the table has no unique index on invoice_number.
db_commit_no_unique_index(rows, row, db_ok) ==
    IF ~db_ok THEN [exc |-> "OperationalError", rows |-> rows]
    ELSE [exc |-> "none", rows |-> rows \cup {row}]

\* db.add(invoice); db.commit(): the row is inserted unless its
\* invoice_number is already stored (unique=True) or the database fails
\* (db_ok false); a failed commit leaves the table as it was.
db_commit(rows, row, db_ok) ==
    IF ~db_ok THEN [exc |-> "OperationalError", rows |-> rows]
    ELSE IF \E r \in rows : r.invoice_number = row.invoice_number
         THEN [exc |-> "IntegrityError", rows |-> rows]
    ELSE [exc |-> "none", rows |-> rows \cup {row}]

\* HTTP responses of the endpoint.
ErrorResponse(code) == [status |-> code]
InvoiceResponse(inv) ==
    [status |-> 200, invoice_number |-> inv.invoice_number, pdf_base64 |-> inv.pdf_data,
     qr_code_data |-> inv.qr_code_data, subtotal |-> inv.subtotal,
     total_vat |-> inv.total_vat, total_amount |-> inv.total_amount]

\* The locals of generate_invoice and create_invoice, gone when the handler
\* returns.
LocalsGone ==
    /\ company' = None /\ totals' = None /\ qr_data' = None
    /\ qr_image' = None /\ pdf_labels' = None /\ pdf' = None /\ invoice' = None

Init == NoCalculation /\ NoQrCall /\ NoLabelsCall /\ NoDocCall /\ NoRequest /\ NoExt

\* POST /api/v1/companies by user u.
CreateCompany(u, data) ==
    /\ pc = "idle"
    /\ Cardinality(companies) < MaxCompanies
    /\ CompanyBaseValid(data)
    /\ companies' = companies \cup {CompanyRow(Cardinality(companies) + 1, u, data)}
    /\ UNCHANGED <<invoices, reqVars, calcVars, qrVars, labVars, docVars, extVars>>

\* POST /api/v1/invoices/generate by user u arrives: the body is parsed as an
\* InvoiceRequest, and a body the schema refuses is answered 422 without
\* generate_invoice being called.
ReceiveGenerate(u, body) ==
    /\ pc = "idle"
    /\ served < MaxRequests
    /\ served' = served + 1
    /\ user' = u
    /\ req' = body
    /\ ran' = <<>>
    /\ failed' = "none"
    /\ before' = invoices
    /\ LocalsGone
    /\ IF InvoiceRequestValid(body)
       THEN pc' = "lookup" /\ response' = None
       ELSE pc' = "idle" /\ response' = ErrorResponse(422)
    /\ UNCHANGED <<dbVars, calcVars, qrVars, labVars, docVars, extVars>>

\* HTTPException(400, "Company profile not found. Please set up your company
\* profile first.")
CompanyProfileNotFound ==
    [status |-> 400,
     detail |-> "Company profile not found. Please set up your company profile first."]

\* A mutant of LookupCompany: the company row is not filtered by its user.
LookupAnyCompany ==
    /\ pc = "lookup"
    /\ IF companies = {}
       THEN pc' = "idle" /\ response' = CompanyProfileNotFound /\ company' = None
       ELSE pc' = "totals" /\ response' = None /\ \E c \in companies : company' = c
    /\ UNCHANGED <<dbVars, served, pdf_labels, user, req, totals, qr_data, qr_image, pdf, invoice,
                   ran, failed, before, calcVars, qrVars, labVars, docVars, extVars>>

\* generate_invoice: company = db.query(Company).filter(user_id == ...).first(),
\* 400 when there is none.  No ORDER BY: any of the user's rows may come first.
LookupCompany ==
    /\ pc = "lookup"
    /\ LET mine == {c \in companies : c.user_id = user}
       IN  IF mine = {}
           THEN pc' = "idle" /\ response' = CompanyProfileNotFound /\ company' = None
           ELSE pc' = "totals" /\ response' = None /\ \E c \in mine : company' = c
    /\ UNCHANGED <<dbVars, served, pdf_labels, user, req, totals, qr_data, qr_image, pdf, invoice,
                   ran, failed, before, calcVars, qrVars, labVars, docVars, extVars>>


\* create_invoice: totals = self.calculate_totals(invoice_data.line_items)
StepTotals ==
    /\ pc = "totals"
    /\ ran' = Append(ran, "totals")
    /\ totals' = calculate_totals(req.line_items)
    /\ pc' = "qr_data"
    /\ UNCHANGED <<dbVars, served, pdf_labels, user, req, company, qr_data, qr_image, pdf, invoice,
                   response, failed, before, calcVars, qrVars, labVars, docVars, extVars>>

\* create_invoice: qr_data = self.qr_generator.generate_qr_data(...); an
\* exception leaves create_invoice.
StepQrData ==
    /\ pc = "qr_data"
    /\ ran' = Append(ran, "qr_data")
    /\ LET r == QrDataFor(company, req, totals)
       IN  IF r.exc = "none"
           THEN qr_data' = r.val /\ pc' = "qr_image" /\ failed' = failed
           ELSE qr_data' = qr_data /\ pc' = "failed" /\ failed' = "qr_data"
    /\ UNCHANGED <<dbVars, served, pdf_labels, user, req, company, totals, qr_image, pdf, invoice,
                   response, before, calcVars, qrVars, labVars, docVars, extVars>>

\* create_invoice: qr_image_bytes = self.qr_generator.generate_qr_image(qr_data).
\* The imaging library may raise (lib_ok false).
StepQrImage(lib_ok) ==
    /\ pc = "qr_image"
    /\ ran' = Append(ran, "qr_image")
    /\ IF lib_ok
       THEN qr_image' = [png_of |-> qr_data] /\ pc' = "labels" /\ failed' = failed
       ELSE qr_image' = qr_image /\ pc' = "failed" /\ failed' = "qr_image"
    /\ UNCHANGED <<dbVars, served, pdf_labels, user, req, company, totals, qr_data, pdf, invoice,
                   response, before, calcVars, qrVars, labVars, docVars, extVars>>

\* pdf_generator.generate_invoice, called by create_invoice, begins with
\* labels = self._get_labels(invoice_data).
StepLabels ==
    /\ pc = "labels"
    /\ ran' = Append(ran, "labels")
    /\ pdf_labels' = get_labels(req.language,
                                IF req.labels = None THEN None ELSE InvoiceLabels(req.labels))
    /\ pc' = "pdf"
    /\ UNCHANGED <<dbVars, served, user, req, company, totals, qr_data, qr_image, pdf,
                   invoice, response, failed, before, calcVars, qrVars, labVars, docVars, extVars>>

\* pdf_generator.generate_invoice builds the elements and the document; its
\* bytes are create_invoice's pdf_bytes.  The layout library may raise
\* (lib_ok false).
StepPdf(lib_ok) ==
    /\ pc = "pdf"
    /\ ran' = Append(ran, "pdf")
    /\ IF lib_ok
       THEN pdf' = ComposePdf(company, req, pdf_labels, qr_image) /\ pc' = "commit" /\ failed' = failed
       ELSE pdf' = pdf /\ pc' = "failed" /\ failed' = "pdf"
    /\ UNCHANGED <<dbVars, served, pdf_labels, user, req, company, totals, qr_data, qr_image, invoice,
                   response, before, calcVars, qrVars, labVars, docVars, extVars>>

\* create_invoice: invoice = Invoice(...); self.db.add(invoice); self.db.commit()
StepCommit(db_ok) ==
    /\ pc = "commit"
    /\ ran' = Append(ran, "commit")
    /\ LET row == InvoiceRow(Cardinality(invoices) + 1, user, company, req, totals,
                             qr_data, pdf)
           r   == db_commit(invoices, row, db_ok)
       IN  /\ invoices' = r.rows
           /\ invoice' = row
           /\ IF r.exc = "none"
              THEN pc' = "refresh" /\ failed' = failed
              ELSE pc' = "failed" /\ failed' = "commit"
    /\ UNCHANGED <<companies, served, pdf_labels, user, req, company, totals, qr_data, qr_image, pdf,
                   response, before, calcVars, qrVars, labVars, docVars, extVars>>

\* create_invoice: self.db.refresh(invoice); return invoice.  The row is
\* committed already when the database fails here (db_ok false).
StepRefresh(db_ok) ==
    /\ pc = "refresh"
    /\ ran' = Append(ran, "refresh")
    /\ IF db_ok
       THEN pc' = "respond" /\ failed' = failed
       ELSE pc' = "failed" /\ failed' = "refresh"
    /\ UNCHANGED <<dbVars, served, pdf_labels, user, req, company, totals, qr_data, qr_image, pdf,
                   invoice, response, before, calcVars, qrVars, labVars, docVars, extVars>>

\* generate_invoice: return InvoiceResponse(...)
Respond ==
    /\ pc = "respond"
    /\ response' = InvoiceResponse(invoice)
    /\ pc' = "idle"
    /\ LocalsGone
    /\ UNCHANGED <<dbVars, served, user, req, ran, failed, before, calcVars, qrVars, labVars, docVars, extVars>>

\* generate_invoice: except Exception: db.rollback(); raise HTTPException(500)
HandleException ==
    /\ pc = "failed"
    /\ response' = ErrorResponse(500)
    /\ pc' = "idle"
    /\ LocalsGone
    /\ UNCHANGED <<dbVars, served, user, req, ran, failed, before, calcVars, qrVars, labVars, docVars, extVars>>

Next ==
    \/ \E u \in Users, data \in CompanyInputs : CreateCompany(u, data)
    \/ \E u \in Users, body \in GenerateRequests : ReceiveGenerate(u, body)
    \/ LookupCompany
    \/ StepTotals
    \/ StepQrData
    \/ \E lib_ok \in BOOLEAN : StepQrImage(lib_ok)
    \/ StepLabels
    \/ \E lib_ok \in BOOLEAN : StepPdf(lib_ok)
    \/ \E db_ok \in BOOLEAN : StepCommit(db_ok)
    \/ \E db_ok \in BOOLEAN : StepRefresh(db_ok)
    \/ Respond
    \/ HandleException

Spec == Init /\ [][Next]_vars


(***************************************************************************)
(* Claims about the generate endpoint                                      *)
(***************************************************************************)
\* The five texts read back from a QR payload, or <<>> when the payload is
\* not five well-formed records tagged 1..5.
QrTexts(payload) ==
    LET p == ParseTlv(b64decode(payload))
    IN  IF /\ p.ok
           /\ Len(p.records) = 5
           /\ \A i \in 1..5 : p.records[i].tag = i /\ ValidUtf8(p.records[i].value)
        THEN [i \in 1..5 |-> DecodeUtf8(p.records[i].value)]
        ELSE <<>>

\* C6: once create_invoice has committed an invoice, the QR payload of the
\* stored row decodes to five fields: the Arabic name and the VAT number of
\* the company the request was generated for, the ISO-8601 form of the
\* request's invoice_date, and the stored total_amount and total_vat written
\* with two decimals.
C6_StoredQrMatchesInvoice ==
    pc \in {"refresh", "respond"} =>
        /\ invoice \in invoices
        /\ invoice.invoice_date = req.invoice_date
        /\ invoice.total_amount.e = 2 /\ invoice.total_vat.e = 2
        /\ LET t == QrTexts(invoice.qr_code_data)
           IN  /\ Len(t) = 5
               /\ t[1] = company.name_ar
               /\ t[2] = company.vat_number
               /\ t[3] = isoformat(invoice.invoice_date)
               /\ ReadFixed2(t[4]) = [kind |-> "cents", cents |-> invoice.total_amount.c]
               /\ ReadFixed2(t[5]) = [kind |-> "cents", cents |-> invoice.total_vat.c]

\* An invoice was just stored for the company with the four-letter Arabic
\* name; its payload reads 2024-11-25T10:00:00, 5750.00 and 750.00.
C6_Witness ==
    /\ pc = "refresh"
    /\ invoice \in invoices
    /\ company.name_ar = <<1588, 1585, 1603, 1577>>
    /\ LET t == QrTexts(invoice.qr_code_data)
       IN  /\ Len(t) = 5
           /\ t[1] = <<1588, 1585, 1603, 1577>>
           /\ t[3] = <<50, 48, 50, 52, 45, 49, 49, 45, 50, 53, 84, 49, 48, 58, 48, 48, 58, 48, 48>>
           /\ t[4] = <<53, 55, 53, 48, 46, 48, 48>>
           /\ t[5] = <<55, 53, 48, 46, 48, 48>>

\* The last request received carries a line item with a VAT rate of 20.
RequestHasRate20 ==
    /\ req # None
    /\ \E i \in 1..Len(req.line_items) :
           /\ "vat_rate" \in DOMAIN req.line_items[i]
           /\ DEq(req.line_items[i].vat_rate, Dec(20, 0))

\* C9: a generate request with a line item at vat_rate 20 is answered with a
\* validation error before any step of create_invoice has begun (no totals,
\* no QR payload, no PDF), and no invoice is stored for it.
C9_Rate20RejectedBeforeAnyWork ==
    RequestHasRate20 =>
        /\ pc = "idle"
        /\ response = ErrorResponse(422)
        /\ ran = <<>>
        /\ totals = None /\ qr_data = None /\ qr_image = None /\ pdf_labels = None
        /\ pdf = None
        /\ invoices = before

\* Such a request was answered 422 by a user who has a company profile.
C9_Witness ==
    /\ RequestHasRate20
    /\ response = ErrorResponse(422)
    /\ \E c \in companies : c.user_id = user


InCreateInvoice ==
    pc \in {"totals", "qr_data", "qr_image", "labels", "pdf", "commit", "refresh"}

\* C11: create_invoice has no side effect on the invoice store: while a
\* request is inside create_invoice the stored invoices are those stored
\* when the request arrived; rows are added only by the caller afterwards.
C11_CreateLeavesStoreUnchanged ==
    InCreateInvoice => invoices = before

\* The steps of create_invoice in the order of the code.
StepOrder == <<"totals", "qr_data", "qr_image", "labels", "pdf", "commit", "refresh">>

\* C12: the steps of create_invoice begin in the order totals, TLV payload,
\* QR image, labels, document, packaging; a step begins only when the one
\* before it has given its result, and nothing begins after a failure.  The
\* payload is built from the company's identity, the totals computed and
\* the request's timestamp, the QR image is rendered from that payload, and
\* the document is composed with those labels and that image and packaged
\* as it is.
C12_StepsInCausalOrder ==
    /\ Len(ran) <= Len(StepOrder)
    /\ \A i \in 1..Len(ran) : ran[i] = StepOrder[i]
    /\ failed # "none" => (ran # <<>> /\ failed = ran[Len(ran)])
    /\ (pc = "failed" \/ InCreateInvoice) =>
           /\ Len(ran) >= 2 => totals = calculate_totals(req.line_items)
           /\ (Len(ran) >= 3 \/ (Len(ran) = 2 /\ pc # "failed")) =>
                  /\ qr_data # None
                  /\ QrTexts(qr_data) =
                         <<company.name_ar, company.vat_number, isoformat(req.invoice_date),
                           Format2f(totals.total_amount), Format2f(totals.vat_amount)>>
           /\ Len(ran) < 2 => qr_data = None
           /\ (Len(ran) >= 4 \/ (Len(ran) = 3 /\ pc # "failed")) =>
                  qr_image = [png_of |-> qr_data]
           /\ Len(ran) < 3 => qr_image = None
           /\ Len(ran) >= 4 <=> pdf_labels # None
           /\ (Len(ran) >= 6 \/ (Len(ran) = 5 /\ pc # "failed")) =>
                  /\ pdf # None
                  /\ pdf.qr_image = qr_image
                  /\ pdf.labels = pdf_labels
           /\ Len(ran) < 5 => pdf = None
           /\ Len(ran) >= 6 <=> invoice # None
           /\ invoice # None =>
                  /\ invoice.pdf_data = [base64_of |-> pdf]
                  /\ invoice.qr_code_data = qr_data

\* A request has gone through every step: its invoice is stored and about to
\* be returned.
C12_Witness ==
    /\ pc = "respond"
    /\ ran = StepOrder
    /\ invoice \in invoices

\* C13: when the TLV encoding refuses a field of more than 255 UTF-8 bytes,
\* the response is an input-invalid one (4xx), not the generic 500.
C13_TlvErrorIsInputInvalid ==
    (failed = "qr_data" /\ pc = "idle") =>
        (response.status >= 400 /\ response.status <= 499)


(***************************************************************************)
(* reshape_arabic_text and the two libraries it calls.  How the libraries  *)
(* behave in a call is an input: they work, or one of them raises.         *)
(***************************************************************************)
\* is_arabic_text: some character lies in U+0600-06FF, U+0750-077F or
\* U+08A0-08FF.
is_arabic_text(text) ==
    \E i \in 1..Len(text) :
        \/ (text[i] >= 1536 /\ text[i] <= 1791)
        \/ (text[i] >= 1872 /\ text[i] <= 1919)
        \/ (text[i] >= 2208 /\ text[i] <= 2303)

\* A character of a right-to-left script: Hebrew, Arabic and their
\* neighbours (U+0590-08FF) and the presentation forms (U+FB1D-FDFF,
\* U+FE70-FEFF).
IsRtlChar(cp) ==
    \/ (cp >= 1424 /\ cp <= 2303)
    \/ (cp >= 64285 /\ cp <= 65023)
    \/ (cp >= 65136 /\ cp <= 65279)

\* A Latin letter.
IsLtrChar(cp) == (cp >= 65 /\ cp <= 90) \/ (cp >= 97 /\ cp <= 122)

\* arabic_reshaper.reshape(text): the Arabic letters U+0621-064A are
\* replaced by presentation forms (here: the form at the same offset from
\* U+FE80; the library picks the form by the letter's neighbours); other
\* characters are kept.
ext_reshape(text) ==
    [i \in 1..Len(text) |->
        IF text[i] >= 1569 /\ text[i] <= 1610 THEN 65152 + (text[i] - 1569) ELSE text[i]]

\* get_display(text): the text in visual order.  The paragraph direction is
\* that of the first strong character; a right-to-left paragraph is laid out
\* from its last character to its first.  (Exact for texts of up to two
\* characters and for texts of right-to-left letters only.)
ext_get_display(text) ==
    LET strong == {i \in 1..Len(text) : IsRtlChar(text[i]) \/ IsLtrChar(text[i])}
        first  == IF strong = {} THEN 0 ELSE CHOOSE i \in strong : \A j \in strong : i <= j
    IN  IF first # 0 /\ IsRtlChar(text[first])
        THEN [i \in 1..Len(text) |-> text[Len(text) + 1 - i]]
        ELSE text

\* The ways the libraries behave in one call.
ExtBehaviours == {"ok", "reshape_raises", "get_display_raises"}

\* A mutant of reshape_arabic_text: no try/except around the library calls.
reshape_arabic_text_unguarded(text, ext) ==
    IF text = <<>> THEN Returned(text)
    ELSE IF ext = "ok" THEN Returned(ext_get_display(ext_reshape(text)))
    ELSE Raised("Exception")

\* reshape_arabic_text(text): the empty text is returned as it is; any other
\* text goes through reshape and get_display, and when either raises the
\* text is returned unshaped.
reshape_arabic_text(text, ext) ==
    IF text = <<>> THEN Returned(text)
    ELSE IF ext = "ok" THEN Returned(ext_get_display(ext_reshape(text)))
    ELSE Returned(text)

(***************************************************************************)
(* The shaping harness: reshape_arabic_text called on its own.             *)
(***************************************************************************)
\* Longest text of the shaping harness.
MaxTextLen == 2

\* 'A', '1', alef, meem, Hebrew shin, and the presentation form U+FEE1.
ShapeChars == {65, 49, 1575, 1605, 1513, 65249}

ShapeTexts == SeqsUpTo(ShapeChars, MaxTextLen)

InitShape ==
    /\ shape_in \in [text : ShapeTexts, ext : ExtBehaviours]
    /\ shape_out = None
    /\ pdf_in = None /\ pdf_out = None
    /\ NoCalculation /\ NoQrCall /\ NoLabelsCall /\ NoRequest /\ NoExt

\* reshape_arabic_text(shape_in.text)
CallReshape ==
    /\ shape_out = None
    /\ shape_out' = reshape_arabic_text(shape_in.text, shape_in.ext)
    /\ UNCHANGED <<shape_in, pdf_in, pdf_out, calcVars, qrVars, labVars, apiVars, extVars>>

NextShape == CallReshape

SpecShape == InitShape /\ [][NextShape]_vars

\* C15: a text that is empty or has no character in U+0600-06FF,
\* U+0750-077F, U+08A0-08FF comes back unchanged, whatever the libraries do.
C15_NonArabicTextUnchanged ==
    (shape_out # None /\ ~is_arabic_text(shape_in.text)) =>
        shape_out = Returned(shape_in.text)

\* C16: when reshape or get_display raises, the text comes back as it was
\* given and nothing is raised.
C16_ShapingFailsOpen ==
    (shape_out # None /\ shape_in.ext # "ok") =>
        shape_out = Returned(shape_in.text)

\* get_display raised on an Arabic text of two letters, and the text came
\* back unshaped.
C16_Witness ==
    /\ shape_out # None
    /\ shape_in.ext = "get_display_raises"
    /\ shape_in.text = <<1605, 1575>>
    /\ shape_out = Returned(<<1605, 1575>>)


(***************************************************************************)
(* ZATCAInvoicePDF: the document as the sequence of its elements.  A       *)
(* Paragraph or a plain table cell is kept by its parts: the label texts   *)
(* it shows and the data text beside them.  An Optional[str] field of the  *)
(* request is None or Str(chars).                                          *)
(***************************************************************************)
Str(chars) == [kind |-> "str", chars |-> chars]

\* bool(v) for an Optional[str]
Truthy(v) == v # None /\ v.chars # <<>>

\* v or ""
OrEmpty(v) == IF v = None THEN <<>> ELSE v.chars

\* labels.get(key, default)
LabelsGet(dict, key, default) == IF key \in DOMAIN dict THEN dict[key] ELSE default

\* reshape_arabic_text applied to a label, whose characters this model does
\* not spell out: the empty label is returned as it is; any other label is
\* shaped when the libraries work and returned unshaped when one raises.
ShapedLabel(label, ext) == [text |-> label, shaped |-> (label # "" /\ ext = "ok")]

\* A label placed in the document without shaping.
PlainLabel(label) == [text |-> label, shaped |-> FALSE]

\* The Arabic and the English label text for a key, as every section derives
\* them: the Arabic one from the resolved labels; the English one from the
\* resolved labels for an English request and from the English defaults
\* otherwise.
ArLabel(dict, key, ext) ==
    ShapedLabel(LabelsGet(dict, key, get_default_labels("ar")[key]), ext)
EnLabel(dict, key, language) ==
    PlainLabel(IF language = "en" THEN LabelsGet(dict, key, get_default_labels("en")[key])
               ELSE get_default_labels("en")[key])

\* The font of a paragraph style (_setup_styles and the styles made in
\* place); Normal and the styles derived from it are Helvetica, the headings
\* Helvetica-Bold.
StyleFont(style, font_available) ==
    CASE style = "ArabicTitle"  -> IF font_available THEN "NotoSansArabic" ELSE "Helvetica-Bold"
      [] style = "ArabicNormal" -> IF font_available THEN "NotoSansArabic" ELSE "Helvetica"
      [] style = "HeaderAr"     -> IF font_available THEN "NotoSansArabic" ELSE "Helvetica"
      [] style = "EnglishTitle" -> "Helvetica-Bold"
      [] OTHER                  -> "Helvetica"

\* Paragraph(text, style): font_tags are the fonts named by <font name=...>
\* inside the text.
Paragraph(label_cells, value, style, font_tags, font_available) ==
    [kind |-> "Paragraph", labels |-> label_cells, value |-> value, style |-> style,
     fonts |-> {StyleFont(style, font_available)} \cup font_tags]

\* A plain string cell of a table.
Cell(label_cells, value) == [kind |-> "cell", labels |-> label_cells, value |-> value]

\* Table(data) with the fonts its TableStyle names.
Table(block, rows, fonts) == [kind |-> "Table", block |-> block, rows |-> rows, fonts |-> fonts]

Spacer == [kind |-> "Spacer"]

\* invoice_date.strftime('%Y-%m-%d')
strftime_ymd(dt) == Pad(dt.year, 4) \o <<45>> \o Pad(dt.month, 2) \o <<45>> \o Pad(dt.day, 2)

\* _create_header
create_header(company_info, invoice_data, dict, ext, fa) ==
    LET company_name_ar == reshape_arabic_text(company_info.name_ar, ext).val
        lang            == invoice_data.language
    IN  Table("header",
          << << Paragraph(<<>>, company_name_ar, "ArabicTitle", {}, fa),
                Paragraph(<<>>, company_info.name_en, "EnglishTitle", {}, fa) >>,
             << Paragraph(<<ArLabel(dict, "vat_number", ext)>>, company_info.vat_number,
                          "ArabicNormal", {}, fa),
                Paragraph(<<EnLabel(dict, "vat_number", lang)>>, company_info.vat_number,
                          "Normal", {}, fa) >>,
             << Paragraph(<<ArLabel(dict, "invoice_number", ext)>>, invoice_data.invoice_number,
                          "ArabicNormal", {}, fa),
                Paragraph(<<EnLabel(dict, "invoice_number", lang)>>, invoice_data.invoice_number,
                          "Normal", {}, fa) >>,
             << Paragraph(<<ArLabel(dict, "date", ext)>>, strftime_ymd(invoice_data.invoice_date),
                          "ArabicNormal", {}, fa),
                Paragraph(<<EnLabel(dict, "date", lang)>>, strftime_ymd(invoice_data.invoice_date),
                          "Normal", {}, fa) >> >>,
          {})

\* _create_customer_section
create_customer_section(invoice_data, dict, ext, fa) ==
    LET lang                == invoice_data.language
        customer_name_ar    == reshape_arabic_text(invoice_data.customer_name_ar, ext).val
        customer_address_ar == reshape_arabic_text(invoice_data.customer_address_ar, ext).val
        customer_name_en    == OrEmpty(invoice_data.customer_name_en)
        customer_address_en == OrEmpty(invoice_data.customer_address_en)
        customer_data ==
            << << Paragraph(<<ArLabel(dict, "customer_info", ext)>>, <<>>, "ArabicNormal", {}, fa),
                  Paragraph(<<EnLabel(dict, "customer_info", lang)>>, <<>>, "Normal", {}, fa) >>,
               << Paragraph(<<>>, customer_name_ar, "ArabicNormal", {}, fa),
                  Paragraph(<<>>, customer_name_en, "Normal", {}, fa) >>,
               << Paragraph(<<>>, customer_address_ar, "ArabicNormal", {}, fa),
                  Paragraph(<<>>, customer_address_en, "Normal", {}, fa) >> >>
        vat_row ==
            IF Truthy(invoice_data.customer_vat_number)
            THEN << << Paragraph(<<ArLabel(dict, "vat_number", ext)>>,
                                 invoice_data.customer_vat_number.chars, "ArabicNormal", {}, fa),
                       Paragraph(<<EnLabel(dict, "vat_number", lang)>>,
                                 invoice_data.customer_vat_number.chars, "Normal", {}, fa) >> >>
            ELSE <<>>
        customer_font == IF fa /\ lang = "ar" THEN "NotoSansArabic" ELSE "Helvetica"
    IN  Table("customer", customer_data \o vat_row, {customer_font})


\* InvoiceLineItem.subtotal, .vat_amount, .total
item_subtotal(item)   == DMul(item.quantity, item.unit_price)
item_vat_amount(item) == DDiv100(DMul(item_subtotal(item), item.vat_rate))
item_total(item)      == DAdd(item_subtotal(item), item_vat_amount(item))

\* sum((item.<property> for item in self.line_items), Decimal("0"))
RECURSIVE SumOfItems(_, _, _)
SumOfItems(property, items, i) ==
    IF i > Len(items) THEN D0
    ELSE DAdd(IF property = "subtotal" THEN item_subtotal(items[i])
              ELSE item_vat_amount(items[i]),
              SumOfItems(property, items, i + 1))

\* InvoiceRequest.subtotal, .total_vat, .total_amount
request_subtotal(invoice_data)     == SumOfItems("subtotal", invoice_data.line_items, 1)
request_total_vat(invoice_data)    == SumOfItems("vat_amount", invoice_data.line_items, 1)
request_total_amount(invoice_data) ==
    DAdd(request_subtotal(invoice_data), request_total_vat(invoice_data))

\* " SAR"
SAR == <<32, 83, 65, 82>>

\* A data row of the line items table, for one item.
ItemRow(item, ext) ==
    << Cell(<<>>, Format2f(item_total(item))),
       Cell(<<>>, Format2f(item_vat_amount(item))),
       Cell(<<>>, Format2f(item.unit_price)),
       Cell(<<>>, Format2f(item.quantity)),
       Cell(<<>>, reshape_arabic_text(item.description, ext).val) >>

\* _create_line_items_table
create_line_items_table(line_items, dict, language, ext, fa) ==
    LET head(key) == Paragraph(<<ArLabel(dict, key, ext), EnLabel(dict, key, language)>>,
                               <<>>, "HeaderAr", {}, fa)
        headers   == << << head("total"), head("vat"), head("amount"), head("quantity"),
                           head("description") >> >>
        data_rows == [i \in 1..Len(line_items) |-> ItemRow(line_items[i], ext)]
        data_font == IF fa THEN "NotoSansArabic" ELSE "Helvetica"
    IN  Table("items", headers \o data_rows, {data_font})

\* A mutant of create_totals_section: the grand total printed is the sum of
\* the rounded subtotal and the rounded VAT.
create_totals_section_adding_rounded(invoice_data, dict, ext, fa) ==
    LET lang       == invoice_data.language
        name(key)  == Cell(<<ArLabel(dict, key, ext), EnLabel(dict, key, lang)>>, <<>>)
        totals_data ==
            << << name("subtotal"),    Cell(<<>>, Format2f(request_subtotal(invoice_data)) \o SAR) >>,
               << name("vat_total"),   Cell(<<>>, Format2f(request_total_vat(invoice_data)) \o SAR) >>,
               << name("grand_total"),
                  Cell(<<>>, Format2f(DAdd(Round2(request_subtotal(invoice_data)),
                                           Round2(request_total_vat(invoice_data)))) \o SAR) >> >>
    IN  Table("totals", totals_data, {"Helvetica", "Helvetica-Bold"})

\* _create_totals_section
create_totals_section(invoice_data, dict, ext, fa) ==
    LET lang       == invoice_data.language
        name(key)  == Cell(<<ArLabel(dict, key, ext), EnLabel(dict, key, lang)>>, <<>>)
        totals_data ==
            << << name("subtotal"),    Cell(<<>>, Format2f(request_subtotal(invoice_data)) \o SAR) >>,
               << name("vat_total"),   Cell(<<>>, Format2f(request_total_vat(invoice_data)) \o SAR) >>,
               << name("grand_total"),
                  Cell(<<>>, Format2f(request_total_amount(invoice_data)) \o SAR) >> >>
        totals_font      == IF fa /\ lang = "ar" THEN "NotoSansArabic" ELSE "Helvetica"
        totals_font_bold == IF fa /\ lang = "ar" THEN "NotoSansArabic" ELSE "Helvetica-Bold"
    IN  Table("totals", totals_data, {totals_font, totals_font_bold})

\* Image(BytesIO(qr_code_image_bytes))
Image(data) == [kind |-> "Image", data |-> data]

\* generate_invoice, "QR Code (Bilingual)": the caption and the image.
QrElements(invoice_data, dict, image, ext, fa) ==
    << Paragraph(<<ArLabel(dict, "qr_code", ext), EnLabel(dict, "qr_code", invoice_data.language)>>,
                 <<>>, "QRLabel", {"NotoSansArabic"}, fa),
       Image(image) >>

\* A mutant of NotesElements: the notes block is rendered whenever the
\* request carries a notes field, an empty one too.
NotesElementsIfGiven(invoice_data, dict, ext, fa) ==
    IF invoice_data.notes # None
    THEN << Spacer,
            Paragraph(<<ArLabel(dict, "notes", ext), EnLabel(dict, "notes", invoice_data.language)>>,
                      reshape_arabic_text(invoice_data.notes.chars, ext).val,
                      "NotesStyle", {"NotoSansArabic"}, fa) >>
    ELSE <<>>

\* generate_invoice, "Notes (if any)"
NotesElements(invoice_data, dict, ext, fa) ==
    IF Truthy(invoice_data.notes)
    THEN << Spacer,
            Paragraph(<<ArLabel(dict, "notes", ext), EnLabel(dict, "notes", invoice_data.language)>>,
                      reshape_arabic_text(invoice_data.notes.chars, ext).val,
                      "NotesStyle", {"NotoSansArabic"}, fa) >>
    ELSE <<>>

\* The elements generate_invoice appends, in the order it appends them.
Elements(company_info, invoice_data, image, ext, fa) ==
    LET dict == get_labels(invoice_data.language, invoice_data.labels)
    IN  << create_header(company_info, invoice_data, dict, ext, fa), Spacer,
           create_customer_section(invoice_data, dict, ext, fa), Spacer,
           create_line_items_table(invoice_data.line_items, dict, invoice_data.language, ext, fa),
           Spacer,
           create_totals_section(invoice_data, dict, ext, fa), Spacer >>
        \o QrElements(invoice_data, dict, image, ext, fa)
        \o NotesElements(invoice_data, dict, ext, fa)

\* The fonts the font registry knows: the standard fonts always, and
\* NotoSansArabic when the module registered it (ARABIC_FONT_AVAILABLE).
RegisteredFonts(fa) ==
    {"Helvetica", "Helvetica-Bold"} \cup (IF fa THEN {"NotoSansArabic"} ELSE {})

\* The fonts an element references: those of a table's style and of the
\* paragraphs in its cells, or those of a paragraph.
ElementFonts(el) ==
    CASE el.kind = "Paragraph" -> el.fonts
      [] el.kind = "Table" ->
            el.fonts \cup UNION { el.rows[r][c].fonts :
                                  <<r, c>> \in { <<r, c>> \in (DOMAIN el.rows) \X (1..5) :
                                                  /\ c \in DOMAIN el.rows[r]
                                                  /\ el.rows[r][c].kind = "Paragraph" } }
      [] OTHER -> {}

\* ZATCAInvoicePDF.generate_invoice.  A Paragraph whose text names an
\* unregistered font cannot be constructed: the library raises ValueError
\* and the call ends there.  Otherwise the document is the elements built.
pdf_generate_invoice(company_info, invoice_data, image, ext, fa) ==
    LET elements == Elements(company_info, invoice_data, image, ext, fa)
    IN  IF \E i \in DOMAIN elements : ~(ElementFonts(elements[i]) \subseteq RegisteredFonts(fa))
        THEN Raised("ValueError")
        ELSE Returned(elements)


(***************************************************************************)
(* One call of ZATCAInvoicePDF.generate_invoice, on requests that passed   *)
(* InvoiceRequest validation, with the font registered or not and the      *)
(* shaping libraries working or raising.                                   *)
(***************************************************************************)
PdfCompany ==
    [name_ar |-> <<1588, 1585, 1603, 1577>>, name_en |-> <<65, 67, 77, 69>>,
     vat_number |-> SampleVat]

\* One line of 10 x 500.00 at 15%; two lines, 0.11 x 0.30 at 15% and
\* 3 x 19.99 at 0%.
PdfItemLists ==
    { << [description |-> <<1582, 1583, 1605, 1577>>, quantity |-> Dec(10, 0),
          unit_price |-> Dec(50000, 2), vat_rate |-> Dec(150, 1)] >>,
      << [description |-> <<1576, 1606, 1583>>, quantity |-> Dec(11, 2),
          unit_price |-> Dec(30, 2), vat_rate |-> Dec(150, 1)],
         [description |-> <<80, 101, 110>>, quantity |-> Dec(3, 0),
          unit_price |-> Dec(1999, 2), vat_rate |-> Dec(0, 0)] >> }

\* The labels a request sends: none, an empty text for "total", a text for
\* "notes".
PdfSentLabels == {None, [total |-> ""], [notes |-> "X"]}

PdfRequests ==
    [ customer_name_ar    : {<<1593, 1605, 1610, 1604>>},
      customer_name_en    : {None, Str(<<67, 111>>)},
      customer_address_ar : {<<1580, 1583, 1577>>},
      customer_address_en : {None, Str(<<74, 101, 100>>)},
      customer_vat_number : {None, Str(SampleVat)},
      invoice_number      : {<<73, 78, 86, 45, 49>>},
      invoice_date        : {CHOOSE d \in InvoiceDates : d.microsecond = 0},
      line_items          : PdfItemLists,
      notes               : {None, Str(<<>>), Str(<<1588, 1603, 1585, 1575>>)},
      language            : {"ar", "en"},
      labels              : PdfSentLabels ]

PdfInputs ==
    [ font_available : BOOLEAN, ext : ExtBehaviours, company_info : {PdfCompany},
      invoice_data : PdfRequests, qr_code_image_bytes : {[png_of |-> <<1, 2, 3>>]} ]

InitPdf ==
    /\ pdf_in \in PdfInputs
    /\ pdf_out = None
    /\ shape_in = None /\ shape_out = None
    /\ NoCalculation /\ NoQrCall /\ NoLabelsCall /\ NoRequest /\ NoExt

\* pdf_generator.generate_invoice(company_info, invoice_data, qr_image)
CallGenerateInvoicePdf ==
    /\ pdf_out = None
    /\ pdf_out' = pdf_generate_invoice(pdf_in.company_info, pdf_in.invoice_data,
                                       pdf_in.qr_code_image_bytes, pdf_in.ext,
                                       pdf_in.font_available)
    /\ UNCHANGED <<pdf_in, shape_in, shape_out, calcVars, qrVars, labVars, apiVars, extVars>>

NextPdf == CallGenerateInvoicePdf

SpecPdf == InitPdf /\ [][NextPdf]_vars

\* C14: when the Arabic font is not registered the composition still
\* completes, and every element of the document references registered fonts
\* only.
C14_ComposesWithoutArabicFont ==
    (pdf_out # None /\ ~pdf_in.font_available) =>
        /\ pdf_out.exc = "none"
        /\ \A i \in DOMAIN pdf_out.val :
              ElementFonts(pdf_out.val[i]) \subseteq RegisteredFonts(pdf_in.font_available)


\* The customer table of a composed document, and the English cells its
\* name and address rows carry.
CustomerTable(doc) == doc[3]
EnglishCells(row) == { c \in DOMAIN row : c > 1 }

\* C17: the Arabic customer name and address are always rendered, and when
\* the English name (address) is absent its row carries no English element,
\* not even an empty one.
C17_NoEnglishElementWhenAbsent ==
    (pdf_out # None /\ pdf_out.exc = "none") =>
        LET rows == CustomerTable(pdf_out.val).rows
            inv  == pdf_in.invoice_data
        IN  /\ rows[2][1].value # <<>> /\ rows[3][1].value # <<>>
            /\ (inv.customer_name_en = None) => (EnglishCells(rows[2]) = {})
            /\ (inv.customer_address_en = None) => (EnglishCells(rows[3]) = {})


\* The block an element of the document belongs to.
ElementBlock(el) ==
    CASE el.kind = "Table" -> el.block
      [] el.kind = "Image" -> "qr"
      [] el.kind = "Paragraph" /\ el.style = "QRLabel" -> "qr"
      [] el.kind = "Paragraph" /\ el.style = "NotesStyle" -> "notes"
      [] OTHER -> "spacer"

\* The blocks of a document in the order they appear, spacers left out.
RECURSIVE BlockOrder(_)
BlockOrder(doc) ==
    IF doc = <<>> THEN <<>>
    ELSE (IF ElementBlock(Head(doc)) = "spacer" THEN <<>> ELSE <<ElementBlock(Head(doc))>>)
         \o BlockOrder(Tail(doc))

\* C18: the blocks come in the order header, customer, line items, totals,
\* QR (caption and image); a notes block follows the QR block exactly when
\* the request has non-empty notes; the customer block has a VAT row exactly
\* when the request has a customer VAT number; the line items table has one
\* data row per line item, in the order of the request.
C18_BlocksInFixedOrder ==
    (pdf_out # None /\ pdf_out.exc = "none") =>
        LET doc   == pdf_out.val
            inv   == pdf_in.invoice_data
            ext   == pdf_in.ext
            crows == doc[3].rows
            irows == doc[5].rows
        IN  /\ BlockOrder(doc) =
                  <<"header", "customer", "items", "totals", "qr", "qr">>
                  \o (IF inv.notes # None /\ inv.notes.chars # <<>> THEN <<"notes">> ELSE <<>>)
            /\ doc[3].block = "customer" /\ doc[5].block = "items"
            /\ Len(crows) = (IF inv.customer_vat_number # None THEN 4 ELSE 3)
            /\ (inv.customer_vat_number # None) =>
                  /\ crows[4][1].value = inv.customer_vat_number.chars
                  /\ crows[4][1].labels # <<>>
            /\ \A r \in 1..3 : r = 1 \/ crows[r][1].labels = <<>>
            /\ Len(irows) = 1 + Len(inv.line_items)
            /\ \A i \in 1..Len(inv.line_items) :
                  /\ irows[i + 1][5].value =
                        reshape_arabic_text(inv.line_items[i].description, ext).val
                  /\ irows[i + 1][3].value = Format2f(inv.line_items[i].unit_price)

\* A document with notes, a customer VAT row and two line items.
C18_Witness ==
    /\ pdf_out # None /\ pdf_out.exc = "none"
    /\ Len(pdf_out.val) = 12
    /\ Len(pdf_out.val[3].rows) = 4
    /\ Len(pdf_out.val[5].rows) = 3


\* A text of the form d+.dd followed by " SAR".
IsSarAmount(s) ==
    /\ Len(s) > Len(SAR)
    /\ SubSeq(s, Len(s) - Len(SAR) + 1, Len(s)) = SAR
    /\ ReadFixed2(SubSeq(s, 1, Len(s) - Len(SAR))) # Malformed

\* C19: every monetary value of the document, the three values of the
\* totals block and the unit price, VAT and total cells of every line item
\* row, is a number with two decimals followed by "SAR".
C19_EveryAmountCarriesSar ==
    (pdf_out # None /\ pdf_out.exc = "none") =>
        LET irows == pdf_out.val[5].rows
            trows == pdf_out.val[7].rows
        IN  /\ \A r \in 1..3 : IsSarAmount(trows[r][2].value)
            /\ \A r \in 2..Len(irows) : \A c \in 1..3 : IsSarAmount(irows[r][c].value)


\* The label texts placed in an element: those of a paragraph, or of every
\* cell of a table.
ElementLabels(el) ==
    CASE el.kind = "Paragraph" -> { el.labels[k] : k \in DOMAIN el.labels }
      [] el.kind = "Table" ->
            UNION { { el.rows[rc[1]][rc[2]].labels[k] : k \in DOMAIN el.rows[rc[1]][rc[2]].labels } :
                    rc \in { rc \in (DOMAIN el.rows) \X (1..5) : rc[2] \in DOMAIN el.rows[rc[1]] } }
      [] OTHER -> {}

DocLabels(doc) == UNION { ElementLabels(doc[i]) : i \in DOMAIN doc }

\* C20: whatever the language and the overrides sent, empty ones and omitted
\* keys included, every label text placed in the document is non-empty.
C20_NoEmptyLabelInDocument ==
    (pdf_out # None /\ pdf_out.exc = "none") =>
        \A l \in DocLabels(pdf_out.val) : l.text # ""


\* What create_invoice computes beside the document, for the request and the
\* company of the call: the totals it stores, and the five texts of the QR
\* payload made from them.
StoredTotalsFor(invoice_data) == calculate_totals(invoice_data.line_items)
QrTextsFor(company_info, invoice_data) ==
    QrTexts(QrDataFor(company_info, invoice_data, StoredTotalsFor(invoice_data)).val)

\* C29: the subtotal, VAT and grand total printed in the totals block equal,
\* as two-decimal values, the totals create_invoice stores for the same
\* request, and the grand total and VAT printed equal QR tags 4 and 5.
C29_PrintedTotalsEqualStored ==
    (pdf_out # None /\ pdf_out.exc = "none") =>
        LET inv   == pdf_in.invoice_data
            t     == StoredTotalsFor(inv)
            q     == QrTextsFor(pdf_in.company_info, inv)
            trows == pdf_out.val[7].rows
        IN  /\ trows[1][2].value = Format2f(t.subtotal) \o SAR
            /\ trows[2][2].value = Format2f(t.vat_amount) \o SAR
            /\ trows[3][2].value = Format2f(t.total_amount) \o SAR
            /\ Len(q) = 5
            /\ trows[3][2].value = q[4] \o SAR
            /\ trows[2][2].value = q[5] \o SAR

\* A document for line items whose rounded grand total is not the sum of
\* the rounded subtotal and the rounded VAT.
C29_Witness ==
    /\ pdf_out # None /\ pdf_out.exc = "none"
    /\ LET t == StoredTotalsFor(pdf_in.invoice_data)
       IN  ~DEq(t.total_amount, DAdd(t.subtotal, t.vat_amount))


\* The bilingual label pairs of a document: for each place a label key is
\* shown, the key, the text on the Arabic side and the text on the English
\* side.
Pair(key, ar, en) == [key |-> key, ar |-> ar.text, en |-> en.text]

LabelPairs(doc) ==
    LET header   == doc[1].rows
        customer == doc[3].rows
        columns  == doc[5].rows[1]
        trows    == doc[7].rows
        hkeys    == <<"vat_number", "invoice_number", "date">>
        ckeys    == <<"total", "vat", "amount", "quantity", "description">>
        tkeys    == <<"subtotal", "vat_total", "grand_total">>
    IN  { Pair(hkeys[i], header[i + 1][1].labels[1], header[i + 1][2].labels[1]) : i \in 1..3 }
        \cup { Pair("customer_info", customer[1][1].labels[1], customer[1][2].labels[1]) }
        \cup { Pair(ckeys[i], columns[i].labels[1], columns[i].labels[2]) : i \in 1..5 }
        \cup { Pair(tkeys[i], trows[i][1].labels[1], trows[i][1].labels[2]) : i \in 1..3 }
        \cup { Pair("qr_code", doc[9].labels[1], doc[9].labels[2]) }
        \cup (IF Len(doc) = 12
              THEN { Pair("notes", doc[12].labels[1], doc[12].labels[2]) } ELSE {})

\* C30: in every bilingual label pair the Arabic side is the Arabic default
\* or the caller's override and the English side is the English default or
\* the caller's override, for both languages; without overrides the Arabic
\* side is the Arabic default.
C30_LabelPairsKeepTheirLanguage ==
    (pdf_out # None /\ pdf_out.exc = "none") =>
        LET sent == pdf_in.invoice_data.labels
            override(key) == IF sent # None /\ key \in DOMAIN sent THEN {sent[key]} ELSE {}
        IN  \A p \in LabelPairs(pdf_out.val) :
               /\ p.ar \in {get_default_labels("ar")[p.key]} \cup override(p.key)
               /\ p.en \in {get_default_labels("en")[p.key]} \cup override(p.key)
               /\ (sent = None) => (p.ar = get_default_labels("ar")[p.key])


(***************************************************************************)
(* Two generate requests served side by side (two workers, one database).  *)
(* Each request has its own InvoiceService, generators and locals; the      *)
(* tables are shared.  Steps of the two requests interleave at every       *)
(* statement of generate_invoice and create_invoice.  Failures of the      *)
(* imaging library and of the connection are exercised in Spec; here the   *)
(* steps fail only where the data makes them fail.                         *)
(***************************************************************************)
\* The bodies the two requests carry: those the request schema accepts.
ConcRequests == { b \in GenerateRequests : InvoiceRequestValid(b) }

\* The profiles registered: those the company schema accepts.
ConcCompanies == { d \in CompanyInputs : CompanyBaseValid(d) }

InitConc == NoCalculation /\ NoQrCall /\ NoLabelsCall /\ NoDocCall /\ NoRequest /\ NoExt

SlotIs(s, at) == reqs[s].pc = at

\* POST /api/v1/companies by a user who has no profile yet.
ConcCreateCompany(u, data) ==
    /\ \A c \in companies : c.user_id # u
    /\ companies' = companies \cup {CompanyRow(Cardinality(companies) + 1, u, data)}
    /\ UNCHANGED <<invoices, reqVars, calcVars, qrVars, labVars, docVars, svc_again, reqs, storeVars>>

\* POST /api/v1/invoices/generate by user u arrives at slot s.
ConcReceive(s, u, body) ==
    /\ SlotIs(s, "new")
    /\ reqs' = [reqs EXCEPT ![s] = [@ EXCEPT !.pc = "lookup", !.user = u, !.body = body]]
    /\ UNCHANGED <<apiVars, calcVars, qrVars, labVars, docVars, svc_again, storeVars>>

\* generate_invoice: the company lookup, 400 when the user has none.
ConcLookup(s) ==
    /\ SlotIs(s, "lookup")
    /\ LET mine == {c \in companies : c.user_id = reqs[s].user}
       IN  IF mine = {}
           THEN reqs' = [reqs EXCEPT ![s] = [@ EXCEPT !.pc = "done",
                                               !.response = CompanyProfileNotFound]]
           ELSE \E c \in mine :
                   reqs' = [reqs EXCEPT ![s] = [@ EXCEPT !.pc = "totals", !.company = c]]
    /\ UNCHANGED <<apiVars, calcVars, qrVars, labVars, docVars, svc_again, storeVars>>

\* A mutant of ConcTotals: the service is one shared object that keeps the
\* totals in an attribute, so the step writes them for every request that is
\* past its lookup.
ConcTotalsShared(s) ==
    /\ SlotIs(s, "totals")
    /\ reqs' = [t \in Slots |->
                  IF t = s
                  THEN [reqs[t] EXCEPT !.pc = "qr_data",
                                       !.totals = calculate_totals(reqs[s].body.line_items)]
                  ELSE IF reqs[t].totals # None
                       THEN [reqs[t] EXCEPT !.totals = calculate_totals(reqs[s].body.line_items)]
                       ELSE reqs[t]]
    /\ UNCHANGED <<apiVars, calcVars, qrVars, labVars, docVars, svc_again, storeVars>>

\* create_invoice: totals = self.calculate_totals(invoice_data.line_items)
ConcTotals(s) ==
    /\ SlotIs(s, "totals")
    /\ reqs' = [reqs EXCEPT ![s] = [@ EXCEPT !.pc = "qr_data",
                                        !.totals = calculate_totals(reqs[s].body.line_items)]]
    /\ UNCHANGED <<apiVars, calcVars, qrVars, labVars, docVars, svc_again, storeVars>>

\* create_invoice: qr_data = self.qr_generator.generate_qr_data(...)
ConcQrData(s) ==
    /\ SlotIs(s, "qr_data")
    /\ LET r == QrDataFor(reqs[s].company, reqs[s].body, reqs[s].totals)
       IN  reqs' = [reqs EXCEPT ![s] =
                      IF r.exc = "none"
                      THEN [@ EXCEPT !.pc = "qr_image", !.qr_data = r.val]
                      ELSE [@ EXCEPT !.pc = "failed"]]
    /\ UNCHANGED <<apiVars, calcVars, qrVars, labVars, docVars, svc_again, storeVars>>

\* create_invoice: qr_image_bytes = self.qr_generator.generate_qr_image(qr_data)
ConcQrImage(s) ==
    /\ SlotIs(s, "qr_image")
    /\ reqs' = [reqs EXCEPT ![s] = [@ EXCEPT !.pc = "labels",
                                        !.qr_image = [png_of |-> reqs[s].qr_data]]]
    /\ UNCHANGED <<apiVars, calcVars, qrVars, labVars, docVars, svc_again, storeVars>>

\* pdf_generator.generate_invoice: labels = self._get_labels(invoice_data)
ConcLabels(s) ==
    /\ SlotIs(s, "labels")
    /\ LET b == reqs[s].body
       IN  reqs' = [reqs EXCEPT ![s] =
                      [@ EXCEPT !.pc = "pdf",
                                !.labels = get_labels(b.language,
                                              IF b.labels = None THEN None
                                              ELSE InvoiceLabels(b.labels))]]
    /\ UNCHANGED <<apiVars, calcVars, qrVars, labVars, docVars, svc_again, storeVars>>

\* pdf_generator.generate_invoice: the elements and the document.
ConcPdf(s) ==
    /\ SlotIs(s, "pdf")
    /\ reqs' = [reqs EXCEPT ![s] =
                  [@ EXCEPT !.pc = "commit",
                            !.pdf = ComposePdf(reqs[s].company, reqs[s].body, reqs[s].labels, reqs[s].qr_image)]]
    /\ UNCHANGED <<apiVars, calcVars, qrVars, labVars, docVars, svc_again, storeVars>>

\* create_invoice: Invoice(...); self.db.add(invoice); self.db.commit().  The
\* unique index on invoice_number is checked by the database at the commit.
ConcCommit(s) ==
    /\ SlotIs(s, "commit")
    /\ LET q   == reqs[s]
           row == InvoiceRow(Cardinality(invoices) + 1, q.user, q.company, q.body, q.totals,
                             q.qr_data, q.pdf)
           r   == db_commit(invoices, row, TRUE)
       IN  /\ invoices' = r.rows
           /\ reqs' = [reqs EXCEPT ![s] =
                         [@ EXCEPT !.pc = IF r.exc = "none" THEN "refresh" ELSE "failed",
                                   !.invoice = row]]
    /\ UNCHANGED <<companies, reqVars, calcVars, qrVars, labVars, docVars, svc_again, storeVars>>

\* create_invoice: self.db.refresh(invoice); return invoice
ConcRefresh(s) ==
    /\ SlotIs(s, "refresh")
    /\ reqs' = [reqs EXCEPT ![s] = [@ EXCEPT !.pc = "respond"]]
    /\ UNCHANGED <<apiVars, calcVars, qrVars, labVars, docVars, svc_again, storeVars>>

\* generate_invoice: return InvoiceResponse(...)
ConcRespond(s) ==
    /\ SlotIs(s, "respond")
    /\ reqs' = [reqs EXCEPT ![s] = [@ EXCEPT !.pc = "done",
                                        !.response = InvoiceResponse(reqs[s].invoice)]]
    /\ UNCHANGED <<apiVars, calcVars, qrVars, labVars, docVars, svc_again, storeVars>>

\* generate_invoice: except Exception: db.rollback(); raise HTTPException(500)
ConcHandleException(s) ==
    /\ SlotIs(s, "failed")
    /\ reqs' = [reqs EXCEPT ![s] = [@ EXCEPT !.pc = "done", !.response = ErrorResponse(500)]]
    /\ UNCHANGED <<apiVars, calcVars, qrVars, labVars, docVars, svc_again, storeVars>>

NextConc ==
    \/ \E u \in Users, data \in ConcCompanies : ConcCreateCompany(u, data)
    \/ \E s \in Slots, u \in Users, body \in ConcRequests : ConcReceive(s, u, body)
    \/ \E s \in Slots : ConcLookup(s)
    \/ \E s \in Slots : ConcTotals(s)
    \/ \E s \in Slots : ConcQrData(s)
    \/ \E s \in Slots : ConcQrImage(s)
    \/ \E s \in Slots : ConcLabels(s)
    \/ \E s \in Slots : ConcPdf(s)
    \/ \E s \in Slots : ConcCommit(s)
    \/ \E s \in Slots : ConcRefresh(s)
    \/ \E s \in Slots : ConcRespond(s)
    \/ \E s \in Slots : ConcHandleException(s)

SpecConc == InitConc /\ [][NextConc]_vars


\* What a generate request of user u with company row co (None when the
\* user has none) and body b produces when it is the only request served:
\* its response, and the totals, QR payload and row it stores.
SoloRun(u, co, b) ==
    IF co = None
    THEN [response |-> CompanyProfileNotFound, stored |-> FALSE]
    ELSE LET t == calculate_totals(b.line_items)
             q == QrDataFor(co, b, t)
         IN  IF q.exc # "none"
             THEN [response |-> ErrorResponse(500), stored |-> FALSE]
             ELSE LET lab == get_labels(b.language,
                                        IF b.labels = None THEN None ELSE InvoiceLabels(b.labels))
                      doc == ComposePdf(co, b, lab, [png_of |-> q.val])
                      row == InvoiceRow(0, u, co, b, t, q.val, doc)
                  IN  [response |-> InvoiceResponse(row), stored |-> TRUE, totals |-> t,
                       qr_data |-> q.val, row |-> row]

\* A row without its generated primary key.
WithoutId(row) == [row EXCEPT !.id = 0]

\* The two requests carry different invoice numbers.
IndependentRequests ==
    /\ \A s \in Slots : reqs[s].body # None
    /\ reqs[1].body.invoice_number # reqs[2].body.invoice_number

\* C21: two generate requests with different invoice numbers, interleaved at
\* any step, each end as they would alone: the same response, and the same
\* totals, QR payload and stored row.
C21_InterleavedAsAlone ==
    IndependentRequests =>
        \A s \in Slots :
            LET q     == reqs[s]
                alone == SoloRun(q.user, q.company, q.body)
            IN  /\ (q.pc \in {"refresh", "respond", "done"} /\ q.invoice # None) =>
                      /\ alone.stored
                      /\ q.totals = alone.totals
                      /\ q.qr_data = alone.qr_data
                      /\ WithoutId(q.invoice) = alone.row
                      /\ q.invoice \in invoices
                /\ (q.pc = "done") =>
                      /\ q.response = alone.response
                      /\ alone.stored => q.invoice # None

\* Both requests are stored, for different line items.
C21_Witness ==
    /\ IndependentRequests
    /\ \A s \in Slots : reqs[s].pc = "done" /\ reqs[s].response.status = 200
    /\ reqs[1].body.line_items # reqs[2].body.line_items
    /\ Cardinality(invoices) = 2


\* No two stored invoices carry the same invoice_number.
InvoiceNumbersUnique ==
    \A r1 \in invoices, r2 \in invoices : r1.invoice_number = r2.invoice_number => r1 = r2

\* C24: under every interleaving of generate requests of any users the
\* stored invoice numbers stay unique; the commit of a request whose number
\* is already stored, by the same or another user, fails and leaves the
\* stored invoices as they were, and the request is answered with a failure
\* after its rollback.
C24_InvoiceNumberStaysUnique ==
    [][ /\ InvoiceNumbersUnique'
        /\ \A s \in Slots :
              /\ (/\ reqs[s].pc = "commit" /\ reqs'[s].pc # "commit"
                  /\ \E r \in invoices : r.invoice_number = reqs[s].body.invoice_number) =>
                      (reqs'[s].pc = "failed" /\ invoices' = invoices)
              /\ (reqs[s].pc = "failed" /\ reqs'[s].pc = "done") =>
                      (reqs'[s].response = ErrorResponse(500) /\ invoices' = invoices) ]_vars

\* Two requests of different users with the same invoice number: one is
\* stored, the other refused.
C24_Witness ==
    /\ \A s \in Slots : reqs[s].pc = "done" /\ reqs[s].invoice # None
    /\ reqs[1].user # reqs[2].user
    /\ reqs[1].body.invoice_number = reqs[2].body.invoice_number
    /\ {reqs[1].response.status, reqs[2].response.status} = {200, 500}
    /\ Cardinality(invoices) = 1


(***************************************************************************)
(* The stored invoices under the other endpoints: companies created,       *)
(* updated and deleted, invoices generated, read, listed, searched and     *)
(* deleted, drafts saved and deleted.  Each handler runs from its first    *)
(* statement to its response in one step.                                  *)
(***************************************************************************)
\* Primary keys generated in one behaviour, over all tables.
MaxIssued == 3

\* The columns of the Invoice model.
InvoiceColumns ==
    {"id", "user_id", "company_id", "invoice_number", "invoice_date", "customer_name_ar",
     "customer_name_en", "customer_address_ar", "customer_address_en", "customer_vat_number",
     "subtotal", "total_vat", "total_amount", "line_items", "qr_code_data", "pdf_data",
     "notes", "created_at", "updated_at"}

\* The value of a column of a stored invoice; columns the model of the row
\* does not carry keep one value from the insert on.
Attr(inv, name) ==
    IF name \in DOMAIN inv THEN inv[name] ELSE [column |-> name]

\* The fields of InvoiceHistoryResponse and of InvoiceDetailResponse.  None
\* has a default, so every one is required, the Optional ones included.
HistoryFields ==
    {"id", "invoice_number", "invoice_date", "customer_name", "customer_vat_number",
     "subtotal", "total_vat", "total_amount", "created_at"}
DetailFields ==
    {"id", "invoice_number", "invoice_date", "customer_name", "customer_vat_number",
     "customer_address", "subtotal", "total_vat", "total_amount", "line_items",
     "qr_code_data", "pdf_base64", "notes", "created_at"}

\* BaseModel(**kwargs): a model of the given fields; keywords that are no
\* field are ignored, a field without keyword raises ValidationError.
BaseModelInit(fields, kwargs) ==
    IF fields \subseteq DOMAIN kwargs
    THEN Returned([k \in fields |-> kwargs[k]])
    ELSE Raised("ValidationError")

\* InvoiceHistoryResponse.model_validate(inv), from_attributes: each field
\* is read from the attribute of its name.
model_validate(inv) ==
    BaseModelInit(HistoryFields, [k \in InvoiceColumns |-> Attr(inv, k)])

\* The keywords get_invoice and get_invoice_by_number pass to
\* InvoiceDetailResponse, each the attribute of the stored invoice.
DetailArguments(inv) ==
    [k \in {"id", "invoice_number", "invoice_date", "customer_name_ar", "customer_name_en",
            "customer_vat_number", "customer_address_ar", "customer_address_en", "subtotal",
            "total_vat", "total_amount", "line_items", "qr_code_data", "pdf_base64", "notes",
            "created_at"} |->
        IF k = "pdf_base64" THEN inv.pdf_data ELSE Attr(inv, k)]

\* A mutant of get_invoice_by_id: the user filter is left out.
get_invoice_by_id_of_anyone(rows, invoice_id, user_id) ==
    LET found == {r \in rows : r.id = invoice_id}
    IN  IF found = {} THEN None ELSE CHOOSE r \in found : TRUE

\* InvoiceService.get_invoice_by_id: the invoice of that id and that user,
\* or None.
get_invoice_by_id(rows, invoice_id, user_id) ==
    LET found == {r \in rows : r.id = invoice_id /\ r.user_id = user_id}
    IN  IF found = {} THEN None ELSE CHOOSE r \in found : TRUE

\* InvoiceService.get_invoice_by_number
get_invoice_by_number(rows, invoice_number, user_id) ==
    LET found == {r \in rows : r.invoice_number = invoice_number /\ r.user_id = user_id}
    IN  IF found = {} THEN None ELSE CHOOSE r \in found : TRUE

\* InvoiceService.delete_invoice: whether an invoice was deleted, and the
\* rows left.
delete_invoice(rows, invoice_id, user_id) ==
    LET inv == get_invoice_by_id(rows, invoice_id, user_id)
    IN  IF inv # None
        THEN [deleted |-> TRUE, rows |-> rows \ {inv}]
        ELSE [deleted |-> FALSE, rows |-> rows]

\* HTTPException(404) of the invoice endpoints and of the draft and company
\* endpoints.
InvoiceNotFound == [status |-> 404, detail |-> "Invoice not found"]
CompanyNotFound == [status |-> 404, detail |-> "Company not found"]

\* The response of get_invoice and get_invoice_by_number for what the
\* service found: 404 for None, else the InvoiceDetailResponse built from
\* the keywords; an exception of the construction is answered 500 by the
\* global exception handler.
DetailResponse(inv) ==
    IF inv = None THEN InvoiceNotFound
    ELSE LET r == BaseModelInit(DetailFields, DetailArguments(inv))
         IN  IF r.exc = "none" THEN [status |-> 200, body |-> r.val] ELSE ErrorResponse(500)

\* The response of list_invoices, search_invoices and get_invoice_history
\* for the rows of the page.
ListResponse(page) ==
    IF \E inv \in page : model_validate(inv).exc # "none"
    THEN ErrorResponse(500)
    ELSE [status |-> 200, total |-> Cardinality(page),
          invoices |-> {model_validate(inv).val : inv \in page}]

\* The search terms sent: an invoice number in full, or a term no invoice
\* matches; "" is no term.
SearchTerms == {"INV-001", "zzz"}

\* Invoice.invoice_number.ilike('%q%') or the same on the customer names,
\* for the terms sent.
Matches(q, inv) == q = inv.invoice_number


\* The bodies of the generate requests: the accepted ones of one line.
StoreRequests == { b \in ConcRequests : Len(b.line_items) = 1 }

\* The body sent to PUT /api/v1/companies/{id}: another Arabic name and
\* another VAT number ("399999999900003"), the other fields unset.
CompanyUpdates ==
    { [name_ar    |-> <<1576, 1610, 1578>>,
       vat_number |-> <<51, 57, 57, 57, 57, 57, 57, 57, 57, 57, 57, 48, 48, 48, 51>>] }

\* update_company: setattr(company, field, value) for the fields sent.
UpdatedCompany(co, update_data) ==
    [k \in DOMAIN co |-> IF k \in DOMAIN update_data THEN update_data[k] ELSE co[k]]

\* The profile registered: the one of the short Arabic name.
StoreCompanies == { d \in ConcCompanies : Len(d.name_ar) < 10 }

\* The draft bodies sent: draft_data one of two forms, no name.
DraftInputs == { [draft_data |-> d, name |-> None, is_auto_saved |-> a] :
                 d \in {"form A", "form B"}, a \in BOOLEAN }

\* InvoiceDraft(user_id=..., draft_data=..., name=..., is_auto_saved=...)
DraftRow(id, user_id, draft) ==
    [id |-> id, user_id |-> user_id, draft_data |-> draft.draft_data, name |-> draft.name,
     is_auto_saved |-> draft.is_auto_saved]

\* save_draft: the rows the query for the user's auto-saved draft matches;
\* first() returns one of them, or None.
AutoSavedOf(rows, user_id) == {d \in rows : d.user_id = user_id /\ d.is_auto_saved}

\* save_draft: existing.draft_data = draft.draft_data; db.commit()
WithDraftData(rows, existing, draft) ==
    {IF d.id = existing.id THEN [d EXCEPT !.draft_data = draft.draft_data] ELSE d : d \in rows}

InitStore == NoCalculation /\ NoQrCall /\ NoLabelsCall /\ NoDocCall /\ NoRequest /\ NoExt

\* POST /api/v1/companies by user u.
StoreCreateCompany(u, data) ==
    /\ issued < MaxIssued
    /\ Cardinality(companies) < MaxCompanies
    /\ issued' = issued + 1
    /\ companies' = companies \cup {CompanyRow(issued + 1, u, data)}
    /\ last_op' = [op |-> "create_company", user |-> u, arg |-> issued + 1, found |-> None,
                   response |-> [status |-> 201]]
    /\ UNCHANGED <<invoices, reqVars, calcVars, qrVars, labVars, docVars, svc_again, reqs,
                   drafts, saves>>

\* PUT /api/v1/companies/{company_id} by user u.
StoreUpdateCompany(u, company_id, update_data) ==
    /\ LET mine == {c \in companies : c.id = company_id /\ c.user_id = u}
       IN  IF mine = {}
           THEN /\ companies' = companies
                /\ last_op' = [op |-> "update_company", user |-> u, arg |-> company_id,
                               found |-> None, response |-> CompanyNotFound]
           ELSE LET co == CHOOSE c \in mine : TRUE
                IN  /\ companies' = (companies \ {co}) \cup {UpdatedCompany(co, update_data)}
                    /\ last_op' = [op |-> "update_company", user |-> u, arg |-> company_id,
                                   found |-> co, response |-> [status |-> 200]]
    /\ UNCHANGED <<invoices, reqVars, calcVars, qrVars, labVars, docVars, svc_again, reqs,
                   drafts, issued, saves>>

\* DELETE /api/v1/companies/{company_id} by user u.  invoices.company_id
\* references companies.id without ON DELETE: where the database enforces
\* the key (fk_enforced) the commit fails while an invoice names the
\* company, and the exception handler answers 500.
StoreDeleteCompany(u, company_id, fk_enforced) ==
    /\ LET mine == {c \in companies : c.id = company_id /\ c.user_id = u}
       IN  IF mine = {}
           THEN /\ companies' = companies
                /\ last_op' = [op |-> "delete_company", user |-> u, arg |-> company_id,
                               found |-> None, response |-> CompanyNotFound]
           ELSE LET co == CHOOSE c \in mine : TRUE
                IN  IF fk_enforced /\ \E r \in invoices : r.company_id = co.id
                    THEN /\ companies' = companies
                         /\ last_op' = [op |-> "delete_company", user |-> u, arg |-> company_id,
                                        found |-> co, response |-> ErrorResponse(500)]
                    ELSE /\ companies' = companies \ {co}
                         /\ last_op' = [op |-> "delete_company", user |-> u, arg |-> company_id,
                                        found |-> co, response |-> [status |-> 204]]
    /\ UNCHANGED <<invoices, reqVars, calcVars, qrVars, labVars, docVars, svc_again, reqs,
                   drafts, issued, saves>>

\* POST /api/v1/invoices/generate by user u, from the company lookup to the
\* response.
StoreGenerate(u, body) ==
    /\ issued < MaxIssued
    /\ LET mine == {c \in companies : c.user_id = u}
       IN  \E co \in (IF mine = {} THEN {None} ELSE mine) :
             LET run == SoloRun(u, co, body)
             IN  IF ~run.stored
                 THEN /\ invoices' = invoices /\ issued' = issued
                      /\ last_op' = [op |-> "generate_invoice", user |-> u,
                                     arg |-> body.invoice_number, found |-> None,
                                     response |-> run.response]
                 ELSE LET row == [run.row EXCEPT !.id = issued + 1]
                          r   == db_commit(invoices, row, TRUE)
                      IN  /\ invoices' = r.rows
                          /\ issued' = issued + 1
                          /\ last_op' = [op |-> "generate_invoice", user |-> u,
                                         arg |-> body.invoice_number, found |-> None,
                                         response |-> IF r.exc = "none" THEN InvoiceResponse(row)
                                                      ELSE ErrorResponse(500)]
    /\ UNCHANGED <<companies, reqVars, calcVars, qrVars, labVars, docVars, svc_again, reqs,
                   drafts, saves>>

\* GET /api/v1/invoices/{invoice_id} by user u.
StoreGetInvoice(u, invoice_id) ==
    /\ LET inv == get_invoice_by_id(invoices, invoice_id, u)
       IN  last_op' = [op |-> "get_invoice", user |-> u, arg |-> invoice_id, found |-> inv,
                       supplied |-> IF inv = None THEN None ELSE DetailArguments(inv),
                       response |-> DetailResponse(inv)]
    /\ UNCHANGED <<apiVars, calcVars, qrVars, labVars, docVars, svc_again, reqs, drafts, issued,
                   saves>>

\* GET /api/v1/invoices/number/{invoice_number} by user u.
StoreGetInvoiceByNumber(u, invoice_number) ==
    /\ LET inv == get_invoice_by_number(invoices, invoice_number, u)
       IN  last_op' = [op |-> "get_invoice_by_number", user |-> u, arg |-> invoice_number,
                       found |-> inv,
                       supplied |-> IF inv = None THEN None ELSE DetailArguments(inv),
                       response |-> DetailResponse(inv)]
    /\ UNCHANGED <<apiVars, calcVars, qrVars, labVars, docVars, svc_again, reqs, drafts, issued,
                   saves>>

\* GET /api/v1/invoices/ by user u, first page: all invoices of the user.
StoreListInvoices(u) ==
    /\ LET page == {r \in invoices : r.user_id = u}
       IN  last_op' = [op |-> "list_invoices", user |-> u, arg |-> "", found |-> page,
                       response |-> ListResponse(page)]
    /\ UNCHANGED <<apiVars, calcVars, qrVars, labVars, docVars, svc_again, reqs, drafts, issued,
                   saves>>

\* GET /api/v1/invoices/search?q=... by user u, first page.
StoreSearchInvoices(u, q) ==
    /\ LET page == {r \in invoices : r.user_id = u /\ Matches(q, r)}
       IN  last_op' = [op |-> "search_invoices", user |-> u, arg |-> q, found |-> page,
                       response |-> ListResponse(page)]
    /\ UNCHANGED <<apiVars, calcVars, qrVars, labVars, docVars, svc_again, reqs, drafts, issued,
                   saves>>

\* GET /api/v1/invoices/history?search=... by user u, first page; search ""
\* is no search.
StoreGetInvoiceHistory(u, search) ==
    /\ LET page == IF search # ""
                   THEN {r \in invoices : r.user_id = u /\ Matches(search, r)}
                   ELSE {r \in invoices : r.user_id = u}
       IN  last_op' = [op |-> "get_invoice_history", user |-> u, arg |-> search, found |-> page,
                       response |-> ListResponse(page)]
    /\ UNCHANGED <<apiVars, calcVars, qrVars, labVars, docVars, svc_again, reqs, drafts, issued,
                   saves>>

\* DELETE /api/v1/invoices/{invoice_id} by user u.
StoreDeleteInvoice(u, invoice_id) ==
    /\ LET r == delete_invoice(invoices, invoice_id, u)
       IN  /\ invoices' = r.rows
           /\ last_op' = [op |-> "delete_invoice", user |-> u, arg |-> invoice_id,
                          found |-> get_invoice_by_id(invoices, invoice_id, u),
                          response |-> IF r.deleted THEN [status |-> 204] ELSE InvoiceNotFound]
    /\ UNCHANGED <<companies, reqVars, calcVars, qrVars, labVars, docVars, svc_again, reqs,
                   drafts, issued, saves>>

\* POST /api/v1/drafts by user u, from the query to the response.
StoreSaveDraft(u, draft) ==
    /\ issued < MaxIssued
    /\ LET auto == AutoSavedOf(drafts, u)
       IN  IF draft.is_auto_saved /\ auto # {}
           THEN \E existing \in auto :
                  /\ drafts' = WithDraftData(drafts, existing, draft)
                  /\ issued' = issued
                  /\ last_op' = [op |-> "save_draft", user |-> u, arg |-> draft,
                                 found |-> existing, response |-> [status |-> 201]]
           ELSE /\ drafts' = drafts \cup {DraftRow(issued + 1, u, draft)}
                /\ issued' = issued + 1
                /\ last_op' = [op |-> "save_draft", user |-> u, arg |-> draft, found |-> None,
                               response |-> [status |-> 201]]
    /\ UNCHANGED <<apiVars, calcVars, qrVars, labVars, docVars, svc_again, reqs, saves>>

\* DELETE /api/v1/drafts/{draft_id} by user u.
StoreDeleteDraft(u, draft_id) ==
    /\ LET mine == {d \in drafts : d.id = draft_id /\ d.user_id = u}
       IN  /\ drafts' = drafts \ mine
           /\ last_op' = [op |-> "delete_draft", user |-> u, arg |-> draft_id, found |-> None,
                          response |-> IF mine = {} THEN [status |-> 404] ELSE [status |-> 204]]
    /\ UNCHANGED <<apiVars, calcVars, qrVars, labVars, docVars, svc_again, reqs, issued, saves>>

NextStore ==
    \/ \E u \in Users, data \in StoreCompanies : StoreCreateCompany(u, data)
    \/ \E u \in Users, id \in 1..MaxIssued, data \in CompanyUpdates :
          StoreUpdateCompany(u, id, data)
    \/ \E u \in Users, id \in 1..MaxIssued, fk \in BOOLEAN : StoreDeleteCompany(u, id, fk)
    \/ \E u \in Users, body \in StoreRequests : StoreGenerate(u, body)
    \/ \E u \in Users, id \in 1..MaxIssued : StoreGetInvoice(u, id)
    \/ \E u \in Users, n \in InvoiceNumbers : StoreGetInvoiceByNumber(u, n)
    \/ \E u \in Users : StoreListInvoices(u)
    \/ \E u \in Users, q \in SearchTerms : StoreSearchInvoices(u, q)
    \/ \E u \in Users, q \in {"", "INV-001"} : StoreGetInvoiceHistory(u, q)
    \/ \E u \in Users, id \in 1..MaxIssued : StoreDeleteInvoice(u, id)
    \/ \E u \in Users, draft \in {d \in DraftInputs : d.draft_data = "form A"} :
          StoreSaveDraft(u, draft)
    \/ \E u \in Users, id \in 1..MaxIssued : StoreDeleteDraft(u, id)

SpecStore == InitStore /\ [][NextStore]_vars


\* The stored invoice of that id, or for get_invoice_by_number of that
\* number, that the user owns.
OwnedBy(u, op, key) ==
    {r \in invoices : /\ r.user_id = u
                      /\ IF op = "get_invoice_by_number" THEN r.invoice_number = key
                         ELSE r.id = key}


\* In this step every stored invoice stays stored with every column as it
\* was, unless the step is delete_invoice by its owner for its id, which
\* removes it whole.
StoredInvoicesStay ==
    \A r \in invoices :
        \/ r \in invoices'
        \/ /\ last_op'.op = "delete_invoice"
           /\ last_op'.user = r.user_id
           /\ last_op'.arg = r.id
           /\ \A r2 \in invoices' : r2.id # r.id

\* In this step, if it is a read by id or by number that found an invoice,
\* the QR payload, PDF and totals handed to the response are the stored
\* columns of that invoice.
StoredValuesHandedOver ==
    (last_op'.op \in {"get_invoice", "get_invoice_by_number"} /\ last_op'.found # None) =>
        /\ last_op'.found \in invoices'
        /\ last_op'.supplied.qr_code_data = last_op'.found.qr_code_data
        /\ last_op'.supplied.pdf_base64 = last_op'.found.pdf_data
        /\ last_op'.supplied.total_amount = last_op'.found.total_amount

\* In this step, if it is a read by id or by number that found an invoice,
\* the response carries the stored QR payload.
ReadReturnsStoredQr ==
    (last_op'.op \in {"get_invoice", "get_invoice_by_number"} /\ last_op'.found # None) =>
        /\ last_op'.response.status = 200
        /\ last_op'.response.body.qr_code_data = last_op'.found.qr_code_data

\* The stored invoices are changed by nothing but their owner's delete, and
\* the readers hand the stored values to the response.
StoredInvoicesAreKept == [][StoredInvoicesStay /\ StoredValuesHandedOver]_vars

\* An invoice was read after the name and VAT number of its company were
\* changed.
ReadAfterCompanyUpdate ==
    /\ last_op # None
    /\ last_op.op = "get_invoice"
    /\ last_op.found # None
    /\ \E c \in companies : /\ c.id = last_op.found.company_id
                            /\ \E d \in CompanyUpdates : c.name_ar = d.name_ar
                                                         /\ c.vat_number = d.vat_number

\* C23: in every step of any endpoint (generate, company create, update and
\* delete, draft save and delete, the reads) each stored invoice stays
\* stored with every column as it was, unless the step is delete_invoice by
\* its owner for its id, which removes it whole; and a read of a stored
\* invoice returns the stored QR payload, whatever the company has become
\* since.
C23_StoredInvoiceNeverChanges == [][StoredInvoicesStay /\ ReadReturnsStoredQr]_vars

\* C27: what get_invoice_by_id, get_invoice_by_number and delete_invoice
\* find is a stored invoice of the caller with the id or number asked for,
\* and they find it whenever there is one; for an id or number the caller
\* owns no invoice of, another user's included, they find nothing, the
\* endpoint answers 404 and the stored invoices stay as they are; a delete
\* of an owned invoice removes that invoice and no other.
C27_InvoiceAccessIsOwnerScoped ==
    [][ (last_op'.op \in {"get_invoice", "get_invoice_by_number", "delete_invoice"}) =>
          LET o    == last_op'
              mine == OwnedBy(o.user, o.op, o.arg)
          IN  /\ (o.found # None) => o.found \in mine
              /\ (mine # {}) => o.found \in mine
              /\ (mine = {}) => (o.response = InvoiceNotFound /\ invoices' = invoices)
              /\ (o.op = "delete_invoice" /\ mine # {}) =>
                    (invoices' = invoices \ {o.found} /\ o.response.status = 204)
              /\ (o.op # "delete_invoice") => invoices' = invoices ]_vars

\* A user asked to delete an invoice of another user, was answered 404, and
\* the invoice is still stored.
C27_Witness ==
    /\ last_op # None
    /\ last_op.op = "delete_invoice"
    /\ last_op.response = InvoiceNotFound
    /\ \E r \in invoices : r.id = last_op.arg /\ r.user_id # last_op.user


\* C28: a read of an invoice the caller owns is answered 200, by id and by
\* number with a body of every field of InvoiceDetailResponse carrying the
\* stored number, totals, QR payload and PDF, in a list, search or history
\* page with an entry of every field of InvoiceHistoryResponse for each
\* invoice of the page; 404 is answered only when the caller owns no such
\* invoice.
C28_ReadsOfOwnedInvoicesSucceed ==
    (last_op # None) =>
        /\ (last_op.op \in {"get_invoice", "get_invoice_by_number"}) =>
              IF last_op.found = None
              THEN last_op.response = InvoiceNotFound
              ELSE /\ last_op.response.status = 200
                   /\ DOMAIN last_op.response.body = DetailFields
                   /\ last_op.response.body.invoice_number = last_op.found.invoice_number
                   /\ last_op.response.body.subtotal = last_op.found.subtotal
                   /\ last_op.response.body.total_vat = last_op.found.total_vat
                   /\ last_op.response.body.total_amount = last_op.found.total_amount
                   /\ last_op.response.body.qr_code_data = last_op.found.qr_code_data
                   /\ last_op.response.body.pdf_base64 = last_op.found.pdf_data
        /\ (last_op.op \in {"list_invoices", "search_invoices", "get_invoice_history"}) =>
              /\ last_op.response.status = 200
              /\ \A r \in last_op.found :
                    \E e \in last_op.response.invoices :
                        /\ DOMAIN e = HistoryFields
                        /\ e.invoice_number = r.invoice_number
                        /\ e.total_amount = r.total_amount


(***************************************************************************)
(* POST /api/v1/drafts served for two requests at a time, each by a worker *)
(* with a database session of its own: the steps of save_draft interleave  *)
(* between the query for the auto-saved draft and the commit.              *)
(***************************************************************************)
InitDraft == NoCalculation /\ NoQrCall /\ NoLabelsCall /\ NoDocCall /\ NoRequest /\ NoExt

\* save_draft by user u arrives at slot s.
DraftReceive(s, u, draft) ==
    /\ saves[s].pc = "new"
    /\ saves' = [saves EXCEPT ![s] = [NewSave EXCEPT !.pc = IF draft.is_auto_saved THEN "query"
                                                            ELSE "insert",
                                                     !.user = u, !.draft = draft]]
    /\ UNCHANGED <<apiVars, calcVars, qrVars, labVars, docVars, svc_again, reqs, drafts, issued,
                   last_op>>

\* save_draft: existing = db.query(InvoiceDraft).filter(...).first()
DraftQuery(s) ==
    /\ saves[s].pc = "query"
    /\ LET auto == AutoSavedOf(drafts, saves[s].user)
       IN  IF auto = {}
           THEN saves' = [saves EXCEPT ![s] = [saves[s] EXCEPT !.pc = "insert"]]
           ELSE \E existing \in auto :
                  saves' = [saves EXCEPT ![s] = [saves[s] EXCEPT !.pc = "update",
                                                                 !.existing = existing]]
    /\ UNCHANGED <<apiVars, calcVars, qrVars, labVars, docVars, svc_again, reqs, drafts, issued,
                   last_op>>

\* save_draft: existing.draft_data = draft.draft_data; db.commit();
\* db.refresh(existing); return existing
DraftUpdate(s) ==
    /\ saves[s].pc = "update"
    /\ drafts' = WithDraftData(drafts, saves[s].existing, saves[s].draft)
    /\ saves' = [saves EXCEPT ![s] =
                   [saves[s] EXCEPT !.pc = "done",
                                    !.response = [status |-> 201, id |-> saves[s].existing.id]]]
    /\ UNCHANGED <<apiVars, calcVars, qrVars, labVars, docVars, svc_again, reqs, issued, last_op>>

\* save_draft: new_draft = InvoiceDraft(...); db.add(new_draft); db.commit();
\* db.refresh(new_draft); return new_draft
DraftInsert(s) ==
    /\ saves[s].pc = "insert"
    /\ issued < MaxIssued
    /\ issued' = issued + 1
    /\ drafts' = drafts \cup {DraftRow(issued + 1, saves[s].user, saves[s].draft)}
    /\ saves' = [saves EXCEPT ![s] =
                   [saves[s] EXCEPT !.pc = "done",
                                    !.response = [status |-> 201, id |-> issued + 1]]]
    /\ UNCHANGED <<apiVars, calcVars, qrVars, labVars, docVars, svc_again, reqs, last_op>>

\* The response is sent; the worker is free for the next request.
DraftReturn(s) ==
    /\ saves[s].pc = "done"
    /\ saves' = [saves EXCEPT ![s] = NewSave]
    /\ UNCHANGED <<apiVars, calcVars, qrVars, labVars, docVars, svc_again, reqs, drafts, issued,
                   last_op>>

NextDraft ==
    \/ \E s \in Slots, u \in Users, draft \in DraftInputs : DraftReceive(s, u, draft)
    \/ \E s \in Slots : DraftQuery(s)
    \/ \E s \in Slots : DraftUpdate(s)
    \/ \E s \in Slots : DraftInsert(s)
    \/ \E s \in Slots : DraftReturn(s)

SpecDraft == InitDraft /\ [][NextDraft]_vars

\* C26: whatever save_draft requests are served, one after another or
\* interleaved, no user has more than one draft with is_auto_saved true.
C26_AtMostOneAutoSavedDraft ==
    \A u \in Users : Cardinality(AutoSavedOf(drafts, u)) <= 1

=============================================================================
